---- MODULE Spec2Model ----
\* Batch worker (job store, job queue, pipeline runner) and the ingest
\* orchestrator of the speech-to-text platform, modelled as interleaved
\* steps between suspension points and file operations.
EXTENDS Integers, Sequences, FiniteSets, TLC

\* ---------------------------------------------------------------- bounds
MaxJobs == 3
MaxSessions == 1
MaxPermits == 2
MaxRetries == 2
RetryJobs == 1
IngestJobs == 2
FlagJobs == 1
InterpretJobs == 2
MaxInterprets == 2
MaxChunks == 3
MaxFrames == 8
MaxWords == 5
StageJobs == 1
DrainJobs == 2
SharedJobs == 2
WordCount == 10
RetriedWords == 2
MaxSaves == 3
MaxSeconds == 2
MaxBoots == 2

JobIds == 1..MaxJobs
Sessions == 1..MaxSessions

\* Python's None
NoneV == "None"

\* ------------------------------------------------------ context profiles
CONTEXT_PROFILES ==
    [ raw |-> [label |-> "Ratt transkript", description |-> "raw",
               summary |-> FALSE, pii |-> FALSE, diarization |-> FALSE,
               text_processing |-> FALSE],
      meeting |-> [label |-> "Mote", description |-> "meeting",
               summary |-> TRUE, prompt |-> "meeting_prompt", pii |-> TRUE,
               diarization |-> TRUE, text_processing |-> TRUE,
               casing |-> "meeting_notes"],
      brainstorm |-> [label |-> "Brainstorm", description |-> "brainstorm",
               summary |-> TRUE, prompt |-> "brainstorm_prompt", pii |-> FALSE,
               diarization |-> FALSE, text_processing |-> TRUE,
               casing |-> "meeting_notes"],
      journal |-> [label |-> "Dagbok", description |-> "journal",
               summary |-> TRUE, prompt |-> "journal_prompt", pii |-> TRUE,
               diarization |-> FALSE, text_processing |-> TRUE,
               casing |-> "meeting_notes"],
      tech_notes |-> [label |-> "Tekniska anteckningar", description |-> "tech",
               summary |-> TRUE, prompt |-> "tech_prompt", pii |-> FALSE,
               diarization |-> FALSE, text_processing |-> FALSE,
               casing |-> "verbatim"] ]

\* CONTEXT_PROFILES.get(name)
get_profile(name) ==
    IF name \in DOMAIN CONTEXT_PROFILES THEN CONTEXT_PROFILES[name] ELSE NoneV

\* truthiness of an optional string
Truthy(x) == x # NoneV /\ x # ""

\* --------------------------------------------------------- configuration
CasingProfiles == {"verbatim", "meeting_notes", "subtitle_friendly"}

\* PipelineConfig with the defaults of the dataclass
DefaultConfig ==
    [ retry_enabled |-> TRUE, language_detect_enabled |-> TRUE,
      text_processing_enabled |-> TRUE, casing_profile |-> "verbatim",
      pii_flagging_enabled |-> TRUE, summary_enabled |-> FALSE,
      diarization_enabled |-> FALSE, max_concurrent_jobs |-> 1,
      retry_with_large |-> FALSE, http_retries |-> 3 ]

\* a deployment that switches the optional stages off except PII flagging
\* (FEATURE_RETRY, FEATURE_LANG_DETECT, FEATURE_TEXT_PROCESSING = false)
ShortConfig ==
    [DefaultConfig EXCEPT !.retry_enabled = FALSE, !.language_detect_enabled = FALSE,
                          !.text_processing_enabled = FALSE]

\* every configuration load_config can produce for the modelled fields
AllConfigs ==
    [ retry_enabled : BOOLEAN, language_detect_enabled : BOOLEAN,
      text_processing_enabled : BOOLEAN, casing_profile : CasingProfiles,
      pii_flagging_enabled : BOOLEAN, summary_enabled : BOOLEAN,
      diarization_enabled : BOOLEAN, max_concurrent_jobs : 1..MaxPermits,
      retry_with_large : {FALSE}, http_retries : {3} ]

AllContexts == {NoneV, "raw", "meeting", "brainstorm", "journal", "tech_notes", "bogus"}

VARIABLES
    config,      \* app.state.config
    setup,       \* the requests callers make in this run (contexts, audio paths, job
                 \* count) and the worker's surroundings (diarizer library, LLM)
    jobs,        \* job store: id -> row, for the ids that have a row
    input,       \* input_data of each job
    pc,          \* position of each job's handler / task
    stepLog,     \* current_step values written for each job, in order
    exc,         \* str(e) of the exception a job's pipeline raised
    casingUsed,  \* casing_profile argument of the job's process_text call
    nextJob,     \* next unused job id (uuid4 is fresh)
    queue,       \* JobQueue._queue
    running,     \* JobQueue._running
    dispatcher,  \* state of the _dispatcher task
    permits,     \* JobQueue._semaphore value
    workerLoop,  \* job whose synchronous block occupies the worker's loop, or 0
    runMeta,     \* meta read by _update_session_status, per job
    sessDir,     \* sessions whose directory exists
    sessionJson, \* content of session.json per session
    resultFile,  \* state of processed.json / interpreted_*.json per session
    resultData,  \* what json.dump wrote into each of those files
    ing,         \* position of each ingest call of the orchestrator
    ingMeta,     \* meta read by update_session_metadata, per session
    backendLoop, \* session whose synchronous block occupies the backend's loop, or 0
    segments,    \* run_pipeline's local `segments`, per job
    rt,          \* progress of the job's retry_low_confidence call
    gateway,     \* the Transcription Gateway process: its model caches and phase
    interpretLog, \* the responses of the interpret_session calls, in order
    audioWav,    \* state of audio.wav per session directory
    live,        \* one /ws/transcribe connection of the backend: its handler's locals
    ws,          \* one /ws/transcribe connection of the Gateway: its handler's locals
    reply,        \* the last response of the Gateway's POST /transcribe
    subtitle,    \* a text given to _split_subtitle_lines and the lines it returned
    audioAttr,    \* config._audio_base64, set by run_pipeline on the shared config
    sessionsDir,        \* SESSIONS_DIR by directory name, the clock, and what save_session returned
    boots        \* number of starts of the batch worker process

vars == << config, setup, jobs, input, pc, stepLog, exc, casingUsed,
           nextJob, queue, running, dispatcher, permits, workerLoop, runMeta, sessDir,
           sessionJson, resultFile, resultData, ing, ingMeta, backendLoop, segments, rt, gateway,
           interpretLog, audioWav, live, ws, reply,
           subtitle,
           audioAttr,
           sessionsDir,
           boots >>

workerVars == << jobs, input, pc, stepLog, exc, casingUsed, nextJob, queue, running,
                 dispatcher, permits, workerLoop, runMeta >>
diskVars == << sessDir, sessionJson, resultFile, resultData >>
backendVars == << ing, ingMeta, backendLoop >>
setupVars == << config, setup >>
stageVars == << segments, rt >>
gatewayVars == << gateway >>
apiVars == << interpretLog >>
audioVars == << audioWav >>
liveVars == << live >>
wsVars == << ws, reply >>
textVars == << subtitle >>
attrVars == << audioAttr >>
dirVars == << sessionsDir >>
bootVars == << boots >>

\* --------------------------------------------------------------- job store
\* the row create_job inserts (current_step and error take the column defaults)
NewJobRow == [ status |-> "pending", current_step |-> "", result_data |-> NoneV,
               error |-> "" ]

\* create_job: INSERT of a fresh row
create_job(db, job_id) == db @@ (job_id :> NewJobRow)

\* update_job: UPDATE ... WHERE id = ?, only the arguments that are not None
update_job(db, job_id, status, current_step, result_data, error) ==
    IF job_id \notin DOMAIN db THEN db
    ELSE [db EXCEPT ![job_id] =
            [ status |-> IF status # NoneV THEN status ELSE @.status,
              current_step |-> IF current_step # NoneV THEN current_step
                               ELSE @.current_step,
              result_data |-> IF result_data # NoneV THEN result_data
                              ELSE @.result_data,
              error |-> IF error # NoneV THEN error ELSE @.error ]]

\* a get_job_result without the status check
get_job_result_unchecked(db, job_id) ==
    IF job_id \notin DOMAIN db THEN [code |-> 404]
    ELSE [code |-> 200, id |-> job_id, status |-> db[job_id].status,
          result |-> db[job_id].result_data]

\* routers/jobs.py, get_job_result: 404 without a row, 409 unless the status is
\* "completed", otherwise the row's id, status and result_data
get_job_result(db, job_id) ==
    IF job_id \notin DOMAIN db THEN [code |-> 404]
    ELSE IF db[job_id].status # "completed"
    THEN [code |-> 409, status |-> db[job_id].status,
          current_step |-> db[job_id].current_step]
    ELSE [code |-> 200, id |-> job_id, status |-> db[job_id].status,
          result |-> db[job_id].result_data]

\* the current_step history kept beside the store
logged(log, job_id, current_step) ==
    IF current_step # NoneV THEN [log EXCEPT ![job_id] = Append(@, current_step)]
    ELSE log

\* get_job(job_id)["status"], "" when the job has no row
StatusOf(j) == IF j \in DOMAIN jobs THEN jobs[j].status ELSE ""

\* ------------------------------------------------------- effective flags
\* profile = get_profile(context_profile_name) if context_profile_name else None
ProfileOf(inp) ==
    IF Truthy(inp.context_profile) THEN get_profile(inp.context_profile) ELSE NoneV

\* "if profile:" -- None and the empty dict are falsy
HasProfile(inp) ==
    /\ Truthy(inp.context_profile)
    /\ inp.context_profile \in DOMAIN CONTEXT_PROFILES
    /\ DOMAIN CONTEXT_PROFILES[inp.context_profile] # {}

\* a flag resolution that ignores the context profile
FlagConfigOnly(cfg, inp, profile_key, config_attr) == cfg[config_attr]

\* _flag(profile_key, config_attr)
Flag(cfg, inp, profile_key, config_attr) ==
    IF HasProfile(inp) /\ profile_key \in DOMAIN ProfileOf(inp)
    THEN ProfileOf(inp)[profile_key]
    ELSE cfg[config_attr]

summary_enabled(cfg, inp) == Flag(cfg, inp, "summary", "summary_enabled")
pii_enabled(cfg, inp) == Flag(cfg, inp, "pii", "pii_flagging_enabled")
diarization_enabled(cfg, inp) == Flag(cfg, inp, "diarization", "diarization_enabled")
text_processing_enabled(cfg, inp) ==
    Flag(cfg, inp, "text_processing", "text_processing_enabled")

\* casing = profile.get("casing", config.casing_profile) if profile else config.casing_profile
Casing(cfg, inp) ==
    IF HasProfile(inp) /\ "casing" \in DOMAIN ProfileOf(inp)
    THEN ProfileOf(inp).casing
    ELSE cfg.casing_profile

\* ---------------------------------------------------- order of the stages
\* what run_pipeline writes to current_step next, after each stage returned
AfterSummary(cfg, inp) == "done"
AfterPii(cfg, inp) ==
    IF summary_enabled(cfg, inp) THEN "summary" ELSE AfterSummary(cfg, inp)
AfterText(cfg, inp) ==
    IF pii_enabled(cfg, inp) THEN "pii_flagging" ELSE AfterPii(cfg, inp)
AfterLang(cfg, inp) ==
    IF text_processing_enabled(cfg, inp) THEN "text_processing" ELSE AfterText(cfg, inp)
AfterDiar(cfg, inp) ==
    IF cfg.language_detect_enabled THEN "language_detect" ELSE AfterLang(cfg, inp)
AfterRetry(cfg, inp) ==
    IF diarization_enabled(cfg, inp) THEN "diarization" ELSE AfterDiar(cfg, inp)
AfterConfidence(cfg, inp) ==
    IF cfg.retry_enabled THEN "retry" ELSE AfterRetry(cfg, inp)

\* a confidence stage gated like the optional stages and switched off
AfterInitSkipped(cfg, inp) == AfterConfidence(cfg, inp)

AfterInit(cfg, inp) == "confidence"

NextStep(cfg, inp, at) ==
    CASE at = "init" -> AfterInit(cfg, inp)
      [] at = "confidence" -> AfterConfidence(cfg, inp)
      [] at = "retry" -> AfterRetry(cfg, inp)
      [] at = "diarization" -> AfterDiar(cfg, inp)
      [] at = "language_detect" -> AfterLang(cfg, inp)
      [] at = "text_processing" -> AfterText(cfg, inp)
      [] at = "pii_flagging" -> AfterPii(cfg, inp)
      [] at = "summary" -> AfterSummary(cfg, inp)

StagePcs == {"init", "confidence", "retry", "diarization", "language_detect",
             "text_processing", "pii_flagging", "summary"}

\* the stages whose call can raise into run_pipeline's try block: retry_low_confidence
\* catches every exception of both strategies; diarize touches the diarizer only when
\* it is given an audio path; the others fail on malformed segments
CanRaise(inp, at) ==
    \/ at \in {"confidence", "language_detect", "text_processing", "pii_flagging",
               "summary"}
    \/ at = "diarization" /\ Truthy(inp.audio_path)

\* str(e) of a raised exception; an exception built without a message gives ""
ExcMsgs == {"", "boom"}

\* str(e) of the ImportError _get_pipeline re-raises when pyannote is not installed
ImportMsg == "No module named 'pyannote'"

\* diarize() with an audio path calls _get_pipeline(), which raises when the
\* library is missing
DiarizerMissing(env, inp, at) ==
    at = "diarization" /\ Truthy(inp.audio_path) /\ ~env.diarizer_installed

\* result gets a "summary" key iff generate_summary returned a non-empty dict; an
\* unreachable LLM makes it return None
ResultData(env, at) ==
    IF at = "summary" /\ env.llm_reachable THEN "result+summary" ELSE "result"

\* ------------------------------------------------------ confidence heuristic
\* Numbers are counted in units of 0.00001, so that round(x, 4) is a rounding to a
\* multiple of 10 units. A JSON number n is <<n>>, JSON null / None is << >>, and a
\* key a dict does not have is absent from the record's DOMAIN.
Null == << >>
Num(n) == << n >>

\* dict.get(key, default)
Get(d, key, default) == IF key \in DOMAIN d THEN d[key] ELSE default

\* the thresholds -1.0, 2.4, 0.6 and 0.3
LogprobThreshold == -100000
CompressionThreshold == 240000
NoSpeechThreshold == 60000
WordThreshold == 30000

\* round(x, 4) (no value of the model sits on a tie)
Round4(x) == IF x % 10 < 5 THEN x - (x % 10) ELSE x - (x % 10) + 10

\* sum(1 for w in words if w.get("probability", 1.0) < 0.3)
CountWeak(words) ==
    Cardinality({i \in 1..Len(words) :
                    Get(words[i], "probability", Num(100000))[1] < WordThreshold})

\* low / len(words) > 0.3
WeakWords(words) == words # << >> /\ CountWeak(words) * 10 > 3 * Len(words)

\* some word's probability is null: "<" on None raises TypeError
NullWord(words) ==
    \E i \in 1..Len(words) : Get(words[i], "probability", Num(100000)) = Null

\* batch_worker/pipeline/confidence.py, _is_low_confidence_dict: "True", "False", or
\* "TypeError" when a comparison meets None
is_low_confidence_dict(seg) ==
    LET lp == Get(seg, "avg_logprob", Num(0))
        cr == Get(seg, "compression_ratio", Num(0))
        ns == Get(seg, "no_speech_prob", Num(0))
        words == Get(seg, "words", << >>)
    IN IF lp = Null THEN "TypeError"
       ELSE IF lp[1] < LogprobThreshold THEN "True"
       ELSE IF cr = Null THEN "TypeError"
       ELSE IF cr[1] > CompressionThreshold THEN "True"
       ELSE IF ns = Null THEN "TypeError"
       ELSE IF ns[1] > NoSpeechThreshold THEN "True"
       ELSE IF NullWord(words) THEN "TypeError"
       ELSE IF WeakWords(words) THEN "True"
       ELSE "False"

\* api_server.py, _is_low_confidence_dict (accelerator backend, raw dict segment)
gateway_is_low_confidence_dict(seg) ==
    LET lp == Get(seg, "avg_logprob", Null)
        cr == Get(seg, "compression_ratio", Null)
        ns == Get(seg, "no_speech_prob", Null)
        words == Get(seg, "words", << >>)
    IN IF lp # Null /\ lp[1] < LogprobThreshold THEN "True"
       ELSE IF cr # Null /\ cr[1] > CompressionThreshold THEN "True"
       ELSE IF ns # Null /\ ns[1] > NoSpeechThreshold THEN "True"
       ELSE IF NullWord(words) THEN "TypeError"
       ELSE IF WeakWords(words) THEN "True"
       ELSE "False"

\* api_server.py, _is_low_confidence (faster-whisper segment object: every attribute
\* is a number, words is a list or None)
gateway_is_low_confidence(segment) ==
    IF segment.avg_logprob[1] < LogprobThreshold THEN "True"
    ELSE IF segment.compression_ratio[1] > CompressionThreshold THEN "True"
    ELSE IF segment.no_speech_prob[1] > NoSpeechThreshold THEN "True"
    ELSE IF WeakWords(segment.words) THEN "True"
    ELSE "False"

\* the words list of _format_segment: probability rounded
FormatWords(words) ==
    [i \in 1..Len(words) |->
        [word |-> "w", probability |-> Num(Round4(words[i].probability[1]))]]

\* the words list of _format_mlx_segment: round(w.get("probability", 0), 4)
FormatMlxWords(words) ==
    [i \in 1..Len(words) |->
        [word |-> "w",
         probability |-> Num(Round4(Get(words[i], "probability", Num(0))[1]))]]

\* round(v, 4) if v is not None else None
RoundOrNone(v) == IF v = Null THEN Null ELSE Num(Round4(v[1]))

\* api_server.py, _format_segment
format_segment(segment) ==
    [ text |-> "text", words |-> FormatWords(segment.words),
      avg_logprob |-> Num(Round4(segment.avg_logprob[1])),
      compression_ratio |-> Num(Round4(segment.compression_ratio[1])),
      no_speech_prob |-> Num(Round4(segment.no_speech_prob[1])),
      low_confidence |-> gateway_is_low_confidence(segment) ]

\* api_server.py, _format_mlx_segment
format_mlx_segment(seg) ==
    [ text |-> "text", words |-> FormatMlxWords(Get(seg, "words", << >>)),
      avg_logprob |-> RoundOrNone(Get(seg, "avg_logprob", Null)),
      compression_ratio |-> RoundOrNone(Get(seg, "compression_ratio", Null)),
      no_speech_prob |-> RoundOrNone(Get(seg, "no_speech_prob", Null)),
      low_confidence |-> gateway_is_low_confidence_dict(seg) ]

\* evaluate_confidence raises on some segment
ConfidenceRaises(segs) ==
    \E i \in 1..Len(segs) : is_low_confidence_dict(segs[i]) = "TypeError"

\* sum(probs), min(probs) with probs = [w.get("probability", 1.0) for w in words]
RECURSIVE SumProbs(_)
SumProbs(words) ==
    IF words = << >> THEN 0
    ELSE Get(Head(words), "probability", Num(100000))[1] + SumProbs(Tail(words))

MinProb(words) ==
    LET probs == {Get(words[i], "probability", Num(100000))[1] : i \in 1..Len(words)}
    IN CHOOSE p \in probs : \A q \in probs : p <= q

\* [w for w in words if w.get("probability", 1.0) < 0.3]
LowWords(words) ==
    SelectSeq(words, LAMBDA w : Get(w, "probability", Num(100000))[1] < WordThreshold)

\* evaluate_confidence, "if words: ... else: ...": the three word fields of a segment
\* with this words list
WordFields(words) ==
    IF words # << >>
    THEN [ word_confidence_avg |-> Num(Round4(SumProbs(words) \div Len(words))),
           word_confidence_min |-> Num(Round4(MinProb(words))),
           low_confidence_words |-> LowWords(words) ]
    ELSE [ word_confidence_avg |-> Null, word_confidence_min |-> Null,
           low_confidence_words |-> << >> ]

\* evaluate_confidence: seg["low_confidence"] = _is_low_confidence_dict(seg), then the
\* word fields from seg.get("words", [])
evaluate_confidence(segs) ==
    [i \in 1..Len(segs) |->
        LET wf == WordFields(Get(segs[i], "words", << >>))
        IN [k \in DOMAIN segs[i] \cup {"low_confidence"} \cup DOMAIN wf |->
               IF k = "low_confidence" THEN is_low_confidence_dict(segs[i])
               ELSE IF k \in DOMAIN wf THEN wf[k]
               ELSE segs[i][k]]]

\* str(e) of the TypeError of a comparison with None
TypeMsg == "'<' not supported between instances of 'NoneType' and 'float'"

\* a segment as the Gateway emits it for clear speech, and one with a low avg_logprob
GoodSeg ==
    format_segment([avg_logprob |-> Num(-30000), compression_ratio |-> Num(150000),
                    no_speech_prob |-> Num(1000), words |-> << >>])
BadSeg ==
    format_segment([avg_logprob |-> Num(-150000), compression_ratio |-> Num(150000),
                    no_speech_prob |-> Num(1000), words |-> << >>])

\* a segment the Gateway flags and the confidence stage does not: avg_logprob -1.00004
EdgeSeg ==
    format_segment([avg_logprob |-> Num(-100004), compression_ratio |-> Num(150000),
                    no_speech_prob |-> Num(1000), words |-> << >>])

\* a clear segment with a longer text
LongSeg == [GoodSeg EXCEPT !.text = "mejla anna@example.com tack"]

\* an utterance that opens with a swear word, and what process_text makes of it
ProfaneText == "fan vad bra, mejla anna@example.com"
ProfaneProcessed == "Fan vad bra, mejla anna@example.com"

\* a segment of the swearing utterance, and one a caller posts with an empty text and
\* a processed_text of its own
ProfaneSeg == [GoodSeg EXCEPT !.text = ProfaneText]
ProcessedOnlySeg ==
    [k \in DOMAIN GoodSeg \cup {"processed_text"} |->
        IF k = "processed_text" THEN ProfaneProcessed
        ELSE IF k = "text" THEN ""
        ELSE GoodSeg[k]]

\* n words of which the first `weak` have probability p and the others 0.9
Words(n, weak, p) ==
    [i \in 1..n |-> [probability |-> Num(IF i <= weak THEN p ELSE 90000)]]

\* n words of an accelerator segment of which the first k carry no probability
WordsNoProb(n, k) ==
    [i \in 1..n |->
        IF i <= k THEN [word |-> "w"] ELSE [word |-> "w", probability |-> Num(90000)]]

\* faster-whisper segment objects: metrics below, on and just beyond the thresholds
FwSegments ==
    [ avg_logprob : {Num(-30000), Num(-100000), Num(-100004), Num(-110000)},
      compression_ratio : {Num(150000), Num(240000), Num(240004), Num(250000)},
      no_speech_prob : {Num(1000), Num(60000), Num(60004), Num(70000)},
      words : {<< >>, Words(WordCount, 3, 20000), Words(WordCount, 4, 20000),
               Words(WordCount, 4, 29996)} ]

MetricKeys == {"avg_logprob", "compression_ratio", "no_speech_prob", "words"}

\* mlx_whisper segment dicts: each metric a number, None or absent
MlxSegments ==
    LET full == [ avg_logprob : {Null, Num(-30000), Num(-110000)},
                  compression_ratio : {Null, Num(150000), Num(250000)},
                  no_speech_prob : {Null, Num(1000), Num(70000)},
                  words : {Words(WordCount, 3, 20000), Words(WordCount, 4, 20000),
                           WordsNoProb(WordCount, 4)} ]
    IN {[k \in K |-> f[k]] : f \in full, K \in SUBSET MetricKeys}

\* the segment lists of one segment that the Gateway's two backends can answer with
GatewaySegments ==
    {<< format_segment(s) >> : s \in FwSegments}
        \cup {<< format_mlx_segment(s) >> : s \in MlxSegments}

\* ------------------------------------------------ the Gateway's model cache
Small == "KBLab/kb-whisper-small"
Medium == "KBLab/kb-whisper-medium"
Large == "KBLab/kb-whisper-large"
DEFAULT_MODEL == Medium
DEFAULT_PROFILE == "accurate"

PROFILE_CONFIG ==
    [ ultra_realtime |-> [model |-> Small, backend |-> "mlx"],
      fast |-> [model |-> Small, backend |-> "mlx"],
      accurate |-> [model |-> Medium, backend |-> "faster_whisper"],
      highest_quality |-> [model |-> Large, backend |-> "faster_whisper"] ]

\* profile query values: the four profiles and an unknown one
Profiles == DOMAIN PROFILE_CONFIG \cup {"bogus"}

\* model field of a RetryRequest
RetryModels == {Medium, Large}

\* a (backend, model) pair that can have a cache entry
ModelKeys == {"faster_whisper", "mlx"} \X {Small, Medium, Large}

\* the process before lifespan runs: ENABLE_MLX_REALTIME, whether mlx_whisper can be
\* imported, whether the converted model directory exists; empty caches
GatewayProcess(enable, installed, dir) ==
    [ phase |-> "starting", enable_mlx |-> enable, mlx_installed |-> installed,
      mlx_dir |-> dir, fw_cache |-> {}, mlx_cache |-> {}, mlx_module |-> NoneV,
      loads |-> [k \in ModelKeys |-> 0], used |-> {} ]

\* _get_mlx_module: the import is tried once
get_mlx_module(g) ==
    IF g.mlx_module # NoneV THEN g
    ELSE [g EXCEPT !.mlx_module = IF g.mlx_installed THEN "mlx_whisper" ELSE "False"]

\* _mlx_available, with the state _get_mlx_module leaves
mlx_available(g) == g.enable_mlx /\ get_mlx_module(g).mlx_module = "mlx_whisper"
AfterAvailable(g) == IF g.enable_mlx THEN get_mlx_module(g) ELSE g

\* a request that ran to its end used model k
Used(g, key, ran) == IF ran THEN [g EXCEPT !.used = @ \cup {key}] ELSE g

\* _get_fw_model: WhisperModel(...) is constructed only for a name not in _fw_cache;
\* `loaded` says whether the constructor returned
get_fw_model(g, model_name, loaded) ==
    IF model_name \in g.fw_cache \/ ~loaded THEN g
    ELSE [g EXCEPT !.fw_cache = @ \cup {model_name},
                   !.loads[<< "faster_whisper", model_name >>] = @ + 1]

\* _get_fw_model returned a model
FwReturned(g, model_name, loaded) == model_name \in g.fw_cache \/ loaded

\* _transcribe_with_profile: unknown profiles fall back to the default; the mlx
\* branch calls mlx.transcribe and leaves _mlx_cache alone
transcribe_with_profile(g, profile, loaded, ran) ==
    LET p == IF profile \in DOMAIN PROFILE_CONFIG THEN profile ELSE DEFAULT_PROFILE
        cfg == PROFILE_CONFIG[p]
        g1 == AfterAvailable(g)
    IN IF cfg.backend = "mlx" /\ mlx_available(g)
       THEN Used(g1, << "mlx", cfg.model >>, ran)
       ELSE Used(get_fw_model(g1, cfg.model, loaded), << "faster_whisper", cfg.model >>,
                 ran /\ FwReturned(g1, cfg.model, loaded))

\* the call of _transcribe_with_profile returned a result
Transcribed(g, profile, loaded, ran) ==
    LET p == IF profile \in DOMAIN PROFILE_CONFIG THEN profile ELSE DEFAULT_PROFILE
        cfg == PROFILE_CONFIG[p]
    IN IF cfg.backend = "mlx" /\ mlx_available(g) THEN ran
       ELSE ran /\ FwReturned(AfterAvailable(g), cfg.model, loaded)

\* a result whose backend is the one the profile asks for
transcribe_result_as_configured(g, profile) ==
    LET p == IF profile \in DOMAIN PROFILE_CONFIG THEN profile ELSE DEFAULT_PROFILE
        cfg == PROFILE_CONFIG[p]
    IN [profile |-> p, backend |-> cfg.backend, model |-> cfg.model]

\* the result of _transcribe_with_profile: "backend" is set by the function that ran,
\* _transcribe_mlx or _transcribe_faster_whisper, "profile" after the fallback
transcribe_result(g, profile) ==
    LET p == IF profile \in DOMAIN PROFILE_CONFIG THEN profile ELSE DEFAULT_PROFILE
        cfg == PROFILE_CONFIG[p]
    IN [profile |-> p,
        backend |-> IF cfg.backend = "mlx" /\ mlx_available(g) THEN "mlx"
                    ELSE "faster_whisper",
        model |-> cfg.model]

\* no request answered yet
NoReply == [status |-> 0, asked |-> NoneV, result |-> NoneV]

\* lifespan, before yield: _get_fw_model(DEFAULT_MODEL); a constructor that raises
\* ends the process
Lifespan(loaded) ==
    /\ gateway.phase = "starting"
    /\ gateway' = IF loaded
                  THEN [get_fw_model(gateway, DEFAULT_MODEL, TRUE)
                            EXCEPT !.phase = "serving"]
                  ELSE [gateway EXCEPT !.phase = "stopped"]
    /\ UNCHANGED << workerVars, diskVars, backendVars, setupVars, apiVars, audioVars, liveVars, wsVars, textVars, attrVars, dirVars, bootVars, stageVars >>

\* POST /transcribe and the "process" action of /ws/transcribe
TranscribeFile(profile, loaded, ran) ==
    /\ gateway.phase = "serving"
    /\ gateway' = transcribe_with_profile(gateway, profile, loaded, ran)
    /\ reply' = IF Transcribed(gateway, profile, loaded, ran)
                THEN [status |-> 200, asked |-> profile,
                      result |-> transcribe_result(gateway, profile)]
                ELSE [status |-> 500, asked |-> profile, result |-> NoneV]
    /\ UNCHANGED << workerVars, diskVars, backendVars, setupVars, apiVars, audioVars, liveVars, textVars, attrVars, dirVars, bootVars, ws, stageVars >>

\* POST /transcribe/retry: always faster-whisper, model named by the request
TranscribeRetry(model, loaded, ran) ==
    /\ gateway.phase = "serving"
    /\ gateway' = Used(get_fw_model(gateway, model, loaded),
                       << "faster_whisper", model >>,
                       ran /\ FwReturned(gateway, model, loaded))
    /\ UNCHANGED << workerVars, diskVars, backendVars, setupVars, apiVars, audioVars, liveVars, wsVars, textVars, attrVars, dirVars, bootVars, stageVars >>

\* POST /warmup
WarmupModel(profile, loaded) ==
    /\ gateway.phase = "serving"
    /\ LET cfg == PROFILE_CONFIG[profile]
           g1 == AfterAvailable(gateway)
           key == << "mlx", cfg.model >>
       IN gateway' =
            IF profile \notin DOMAIN PROFILE_CONFIG THEN gateway
            ELSE IF cfg.backend = "mlx" /\ mlx_available(gateway)
            THEN IF ~g1.mlx_dir THEN g1
                 ELSE IF cfg.model \in g1.mlx_cache THEN Used(g1, key, TRUE)
                 ELSE IF ~loaded THEN g1
                 ELSE Used([g1 EXCEPT !.mlx_cache = @ \cup {cfg.model},
                                      !.loads[key] = @ + 1], key, TRUE)
            ELSE Used(get_fw_model(g1, cfg.model, loaded),
                      << "faster_whisper", cfg.model >>, FwReturned(g1, cfg.model, loaded))
    /\ UNCHANGED << workerVars, diskVars, backendVars, setupVars, apiVars, audioVars, liveVars, wsVars, textVars, attrVars, dirVars, bootVars, stageVars >>

\* lifespan, after yield: both caches are cleared
GatewayShutdown ==
    /\ gateway.phase = "serving"
    /\ gateway' = [gateway EXCEPT !.phase = "stopped", !.fw_cache = {},
                                  !.mlx_cache = {}]
    /\ UNCHANGED << workerVars, diskVars, backendVars, setupVars, apiVars, audioVars, liveVars, wsVars, textVars, attrVars, dirVars, bootVars, stageVars >>

\* -------------------------------------------- api_server.py, /ws/transcribe
\* before a caller connects
WsIdle ==
    [ phase |-> "idle", is_streaming |-> FALSE, audio_buffer |-> << >>,
      profile |-> DEFAULT_PROFILE, frames |-> 0, audio |-> 0, sent |-> << >> ]

\* manager.connect: accept; audio_buffer = [], is_streaming = False
WsConnect ==
    /\ gateway.phase = "serving"
    /\ ws.phase = "idle"
    /\ ws' = [ws EXCEPT !.phase = "open"]
    /\ UNCHANGED << workerVars, diskVars, backendVars, setupVars, apiVars, audioVars,
                    liveVars, textVars, attrVars, dirVars, bootVars, reply, gatewayVars, stageVars >>

\* a frame can be received
WsReceives == ws.phase = "open" /\ ws.frames < MaxFrames

\* action "start": the profile is taken, the buffer emptied, a status frame sent
WsStart(profile) ==
    /\ WsReceives
    /\ ws' = [ws EXCEPT !.frames = @ + 1, !.profile = profile, !.is_streaming = TRUE,
                        !.audio_buffer = << >>,
                        !.sent = Append(@, [type |-> "status"])]
    /\ UNCHANGED << workerVars, diskVars, backendVars, setupVars, apiVars, audioVars,
                    liveVars, textVars, attrVars, dirVars, bootVars, reply, gatewayVars, stageVars >>

\* action "audio": appended to the buffer only while streaming; data that does not
\* decode raises, which ends the handler
WsAudio(decodes) ==
    /\ WsReceives
    /\ ws' = IF ~ws.is_streaming
             THEN [ws EXCEPT !.frames = @ + 1, !.audio = @ + 1]
             ELSE IF ~decodes
             THEN [ws EXCEPT !.frames = @ + 1, !.audio = @ + 1, !.phase = "closed"]
             ELSE [ws EXCEPT !.frames = @ + 1, !.audio = @ + 1,
                             !.audio_buffer = Append(@, ws.audio + 1)]
    /\ UNCHANGED << workerVars, diskVars, backendVars, setupVars, apiVars, audioVars,
                    liveVars, textVars, attrVars, dirVars, bootVars, reply, gatewayVars, stageVars >>

\* a process action that keeps what it transcribed
BufferKept(buffer) == buffer

\* audio_buffer = [] after the transcript frame was sent
BufferCleared(buffer) == << >>

\* action "process": with a non-empty buffer the frames are concatenated and
\* transcribed under the profile of the last start, one transcript frame is sent and
\* the buffer emptied; an exception of the transcription ends the handler
WsProcess(loaded, ran) ==
    /\ WsReceives
    /\ IF ws.audio_buffer = << >>
       THEN /\ ws' = [ws EXCEPT !.frames = @ + 1]
            /\ UNCHANGED gateway
       ELSE /\ gateway' = transcribe_with_profile(gateway, ws.profile, loaded, ran)
            /\ ws' = IF Transcribed(gateway, ws.profile, loaded, ran)
                     THEN [ws EXCEPT !.frames = @ + 1,
                                     !.audio_buffer = BufferCleared(@),
                                     !.sent = Append(@,
                                         [type |-> "transcript",
                                          audio |-> ws.audio_buffer,
                                          result |-> transcribe_result(gateway,
                                                                       ws.profile)])]
                     ELSE [ws EXCEPT !.frames = @ + 1, !.phase = "closed"]
    /\ UNCHANGED << workerVars, diskVars, backendVars, setupVars, apiVars, audioVars,
                    liveVars, textVars, attrVars, dirVars, bootVars, reply, stageVars >>

\* action "stop": streaming ends, the buffer is emptied, a status frame sent
WsStop ==
    /\ WsReceives
    /\ ws' = [ws EXCEPT !.frames = @ + 1, !.is_streaming = FALSE,
                        !.audio_buffer = << >>,
                        !.sent = Append(@, [type |-> "status"])]
    /\ UNCHANGED << workerVars, diskVars, backendVars, setupVars, apiVars, audioVars,
                    liveVars, textVars, attrVars, dirVars, bootVars, reply, gatewayVars, stageVars >>

\* the caller leaves: receive_json raises WebSocketDisconnect
WsDisconnect ==
    /\ ws.phase = "open"
    /\ ws' = [ws EXCEPT !.phase = "closed"]
    /\ UNCHANGED << workerVars, diskVars, backendVars, setupVars, apiVars, audioVars,
                    liveVars, textVars, attrVars, dirVars, bootVars, reply, gatewayVars, stageVars >>

\* ------------------------------------------------------------ the disk
EmptyMeta == [k \in {} |-> k]
NoFile == [state |-> "absent", meta |-> EmptyMeta]
PartialFile == [state |-> "partial", meta |-> EmptyMeta]
FullFile(meta) == [state |-> "complete", meta |-> meta]

\* dict.update
DictUpdate(d, u) ==
    [k \in DOMAIN d \cup DOMAIN u |-> IF k \in DOMAIN u THEN u[k] ELSE d[k]]

\* filename of _write_processed_result
ResultName(context_profile) ==
    IF Truthy(context_profile) THEN <<"interpreted", context_profile>>
    ELSE <<"processed">>

ResultNames == {ResultName(c) : c \in AllContexts}

\* the metadata dict save_session writes (the keys the model follows)
BaseMeta(s, segs) == [session_id |-> s, segments |-> segs, audio_file |-> "audio.wav"]

\* the updates ingest_audio_file / finalize_realtime_session merge after submitting
IngestUpdates(kind, job_id) ==
    IF kind = "ingest"
    THEN [job_id |-> job_id, processing_status |-> "submitted", source |-> "api"]
    ELSE [job_id |-> job_id, processing_status |-> "submitted"]

\* the keys _update_session_status sets on the meta it read
RunnerUpdates(status, job_id, error) ==
    IF Truthy(error)
    THEN [job_id |-> job_id, processing_status |-> status, processed_at |-> "now",
          processing_error |-> error]
    ELSE [job_id |-> job_id, processing_status |-> status, processed_at |-> "now"]

NoSession == 0

\* ------------------------------------------------------------ submit_job
\* POST /jobs: create_job inserts the row; the handler then calls enqueue
submit_job(inp) ==
    /\ nextJob <= setup.jobLimit
    /\ jobs' = create_job(jobs, nextJob)
    /\ input' = [input EXCEPT ![nextJob] = inp]
    /\ pc' = [pc EXCEPT ![nextJob] = "created"]
    /\ nextJob' = nextJob + 1

\* a caller posts a job directly to the worker
SubmitDirect(sid, ctx, audio, b64, segs) ==
    /\ submit_job([session_id |-> sid, context_profile |-> ctx, audio_path |-> audio,
                   audio_base64 |-> b64, segments |-> segs])
    /\ UNCHANGED << stepLog, exc, casingUsed, queue, running, dispatcher, permits,
                    workerLoop, runMeta >>
    /\ UNCHANGED << diskVars, backendVars, setupVars, apiVars, audioVars, liveVars, wsVars, textVars, attrVars, dirVars, bootVars, gatewayVars, stageVars >>

\* enqueue: await update_job(job_id, status="queued", current_step="queued")
EnqueueUpdate(j) ==
    /\ pc[j] = "created"
    /\ jobs' = update_job(jobs, j, "queued", "queued", NoneV, NoneV)
    /\ stepLog' = logged(stepLog, j, "queued")
    /\ pc' = [pc EXCEPT ![j] = "enq"]
    /\ UNCHANGED << input, exc, casingUsed, nextJob, queue, running, dispatcher,
                    permits, workerLoop, runMeta >>
    /\ UNCHANGED << diskVars, backendVars, setupVars, apiVars, audioVars, liveVars, wsVars, textVars, attrVars, dirVars, bootVars, gatewayVars, stageVars >>

\* enqueue: await self._queue.put(...), after which submit_job returns its response
EnqueuePut(j) ==
    /\ pc[j] = "enq"
    /\ workerLoop = 0
    /\ queue' = Append(queue, j)
    /\ pc' = [pc EXCEPT ![j] = "queued"]
    /\ UNCHANGED << jobs, input, stepLog, exc, casingUsed, nextJob, running,
                    dispatcher, permits, workerLoop, runMeta >>
    /\ UNCHANGED << diskVars, backendVars, setupVars, apiVars, audioVars, liveVars, wsVars, textVars, attrVars, dirVars, bootVars, gatewayVars, stageVars >>

\* ------------------------------------------------------------- JobQueue
\* index of the first None in the queue, 0 when there is none
FirstNone(q) ==
    IF \E i \in 1..Len(q) : q[i] = 0
    THEN CHOOSE i \in 1..Len(q) : q[i] = 0 /\ \A k \in 1..(i - 1) : q[k] # 0
    ELSE 0

\* the items _dispatcher takes out before it suspends or breaks
Taken(q) == IF FirstNone(q) = 0 THEN q ELSE SubSeq(q, 1, FirstNone(q) - 1)

\* _dispatcher: while self._running: item = await get(); None -> break;
\* create_task(_run_with_semaphore(...)); get() does not suspend while items remain
DispatcherRun ==
    /\ dispatcher = "waiting"
    /\ queue # << >>
    /\ workerLoop = 0
    /\ pc' = [j \in JobIds |->
                IF \E i \in 1..Len(Taken(queue)) : Taken(queue)[i] = j
                THEN "spawned" ELSE pc[j]]
    /\ IF FirstNone(queue) = 0
       THEN queue' = << >> /\ dispatcher' = "waiting"
       ELSE /\ queue' = SubSeq(queue, FirstNone(queue) + 1, Len(queue))
            /\ dispatcher' = "exited"
    /\ UNCHANGED << jobs, input, stepLog, exc, casingUsed, nextJob, running,
                    permits, workerLoop, runMeta >>
    /\ UNCHANGED << diskVars, backendVars, setupVars, apiVars, audioVars, liveVars, wsVars, textVars, attrVars, dirVars, bootVars, gatewayVars, stageVars >>

\* a semaphore that never reports itself locked
sem_locked_never(value) == FALSE

\* asyncio.Semaphore.locked()
sem_locked(value) == value = 0

\* _run_with_semaphore: async with self._semaphore (acquire)
Acquire(j) ==
    /\ pc[j] = "spawned"
    /\ workerLoop = 0
    /\ ~sem_locked(permits)
    /\ permits' = permits - 1
    /\ pc' = [pc EXCEPT ![j] = "acquired"]
    /\ UNCHANGED << jobs, input, stepLog, exc, casingUsed, nextJob, queue, running,
                    dispatcher, workerLoop, runMeta >>
    /\ UNCHANGED << diskVars, backendVars, setupVars, apiVars, audioVars, liveVars, wsVars, textVars, attrVars, dirVars, bootVars, gatewayVars, stageVars >>

\* _run_with_semaphore: await update_job(job_id, status="running", current_step="starting")
RunningUpdate(j) ==
    /\ pc[j] = "acquired"
    /\ jobs' = update_job(jobs, j, "running", "starting", NoneV, NoneV)
    /\ stepLog' = logged(stepLog, j, "starting")
    /\ pc' = [pc EXCEPT ![j] = "starting"]
    /\ UNCHANGED << input, exc, casingUsed, nextJob, queue, running, dispatcher,
                    permits, workerLoop, runMeta >>
    /\ UNCHANGED << diskVars, backendVars, setupVars, apiVars, audioVars, liveVars, wsVars, textVars, attrVars, dirVars, bootVars, gatewayVars, stageVars >>

\* shutdown: _running = False; put(None); cancel every task of self._workers, which
\* holds the dispatcher alone
Shutdown ==
    /\ running
    /\ workerLoop = 0
    /\ running' = FALSE
    /\ queue' = Append(queue, 0)
    /\ dispatcher' = IF dispatcher = "waiting" THEN "cancelled" ELSE dispatcher
    /\ UNCHANGED << jobs, input, pc, stepLog, exc, casingUsed, nextJob, permits,
                    workerLoop, runMeta >>
    /\ UNCHANGED << diskVars, backendVars, setupVars, apiVars, audioVars, liveVars, wsVars, textVars, attrVars, dirVars, bootVars, gatewayVars, stageVars >>

\* the process stops, at any moment and by any cause, and starts again: lifespan loads
\* the configuration, init_db creates the table if it does not exist, and a new
\* JobQueue is started, with an empty queue, a full semaphore and a dispatcher. Every
\* request handler and task of the old process is gone; the rows of the job store and
\* the files stay as they were, and nothing reads the rows at the start.
ProcessRestart ==
    /\ boots < MaxBoots
    /\ boots' = boots + 1
    /\ queue' = << >>
    /\ running' = TRUE
    /\ dispatcher' = "waiting"
    /\ permits' = config.max_concurrent_jobs
    /\ workerLoop' = 0
    /\ pc' = [j \in JobIds |->
                IF pc[j] \in {"none", "finished", "dropped"} THEN pc[j] ELSE "lost"]
    /\ audioAttr' = NoneV
    /\ UNCHANGED << jobs, input, stepLog, exc, casingUsed, nextJob, runMeta >>
    /\ UNCHANGED << diskVars, backendVars, setupVars, apiVars, audioVars, liveVars,
                    wsVars, textVars, dirVars, gatewayVars, stageVars >>

\* ------------------------------------------------- retry_low_confidence
\* what one attempt of client.post + raise_for_status can give: an HTTP status or
\* transport error, or a response of the Gateway whose "segments" list is empty or
\* starts with a segment that is low-confidence or is not (both formatters of the
\* Gateway always set the key)
Outcomes == {"fail", "empty", "low", "good"}
Responses == {"empty", "low", "good"}

NoCall == [posts |-> 0, waits |-> << >>, result |-> "none"]

RetryIdle == [pc |-> "idle", low |-> << >>, k |-> 0, strategy |-> "A", attempt |-> 0,
              posts |-> 0, waits |-> << >>, last |-> NoCall,
              a |-> << >>, b |-> << >>, audio_base64 |-> NoneV, sent |-> {}]

\* low_segments: the indices of the segments with a truthy "low_confidence"
RECURSIVE LowIndices(_, _)
LowIndices(segs, i) ==
    IF i > Len(segs) THEN << >>
    ELSE IF Get(segs[i], "low_confidence", "False") = "True"
    THEN << i >> \o LowIndices(segs, i + 1)
    ELSE LowIndices(segs, i + 1)

\* retry_low_confidence returns at once: no audio_base64, or no low-confidence segment
RetrySkips(inp, segs) == ~Truthy(inp.audio_base64) \/ LowIndices(segs, 1) = << >>

\* retry_segments[0] of a response
Best(resp) ==
    [format_segment([avg_logprob |-> Num(IF resp = "low" THEN -150000 ELSE -30000),
                     compression_ratio |-> Num(150000), no_speech_prob |-> Num(1000),
                     words |-> Words(RetriedWords, 0, 90000)])
        EXCEPT !.text = "retried"]

\* a replacement by the retried segment alone: {**best, "retried": True, ...}
ReplacedByBest(seg, resp, model) ==
    [k \in DOMAIN Best(resp) \cup {"retried", "retry_model"} |->
        IF k = "retried" THEN "True"
        ELSE IF k = "retry_model" THEN model
        ELSE Best(resp)[k]]

\* {**seg, **best, "retried": True, "retry_model": model}
Replaced(seg, resp, model) ==
    [k \in DOMAIN seg \cup DOMAIN Best(resp) \cup {"retried", "retry_model"} |->
        IF k = "retried" THEN "True"
        ELSE IF k = "retry_model" THEN model
        ELSE IF k \in DOMAIN Best(resp) THEN Best(resp)[k]
        ELSE seg[k]]

\* a strategy A that replaces on any response, as strategy B does
AcceptsAny(resp) == resp # "empty"

\* strategy A replaces: retry_segments and not best.get("low_confidence", True)
Accepts(resp) == resp = "good"

\* 2 ** attempt
RECURSIVE Pow2(_)
Pow2(n) == IF n <= 0 THEN 1 ELSE 2 * Pow2(n - 1)

\* the state after the current strategy of the current segment is over: strategy B
\* follows strategy A unless A replaced the segment or retry_with_large is off;
\* otherwise the loop goes to the next low segment, or the stage returns
AfterStrategy(r, cfg, replaced) ==
    IF r.strategy = "A" /\ ~replaced /\ cfg.retry_with_large
    THEN [r EXCEPT !.strategy = "B", !.attempt = 0, !.posts = 0, !.waits = << >>,
                   !.pc = "call"]
    ELSE LET q == IF r.strategy = "A"
                  THEN [r EXCEPT !.b = Append(@, [resp |-> "not_called", posts |-> 0])]
                  ELSE r
         IN IF q.k < Len(q.low)
            THEN [q EXCEPT !.k = @ + 1, !.strategy = "A", !.attempt = 0, !.posts = 0,
                           !.waits = << >>, !.pc = "call"]
            ELSE [q EXCEPT !.pc = "done"]

\* the record of what a strategy got for the current segment, and how many POSTs it
\* issued: a[k] and b[k] belong to the k-th low segment
Noted(r, what) ==
    IF r.strategy = "A" THEN [r EXCEPT !.a = Append(@, [resp |-> what, posts |-> r.posts])]
    ELSE [r EXCEPT !.b = Append(@, [resp |-> what, posts |-> r.posts])]

\* a request body that takes the audio from the shared config at the time of the POST
PostedAudioShared(r, attr) == attr

\* "audio_base64": audio_base64 in the body of a POST: the local variable of the call
PostedAudio(r, attr) == r.audio_base64

\* run_pipeline sets config._audio_base64 from the job's input and calls
\* retry_low_confidence, which reads it into a local variable before its first await
\* and gets past its two early returns: low_segments is computed and
\* the loop is at strategy A of the first low segment
RetryBegin(j) ==
    /\ pc[j] = "retry"
    /\ rt[j].pc = "idle"
    /\ ~RetrySkips(input[j], segments[j])
    /\ audioAttr' = input[j].audio_base64
    /\ rt' = [rt EXCEPT ![j] = [RetryIdle EXCEPT !.pc = "call", !.k = 1,
                                                 !.low = LowIndices(segments[j], 1),
                                                 !.audio_base64 = audioAttr']]
    /\ UNCHANGED << segments, workerVars, diskVars, backendVars, setupVars, apiVars, audioVars, liveVars, wsVars, textVars, dirVars, bootVars, gatewayVars >>

\* _post_with_retries, one turn of "for attempt in range(config.http_retries)": the
\* POST succeeds and the response is returned; or it fails and the loop sleeps
\* http_retry_backoff * 2 ** attempt and goes on, or after the last attempt raises
\* last_exc; with no attempt at all, "raise last_exc" raises a TypeError. The caller's
\* try/except then replaces the segment or moves on.
PostAttempt(j, outcome) ==
    /\ pc[j] = "retry"
    /\ rt[j].pc = "call"
    /\ LET r == rt[j]
           idx == r.low[r.k]
           none == r.attempt >= config.http_retries
           posted == [r EXCEPT !.posts = @ + 1,
                               !.sent = @ \cup {PostedAudio(r, audioAttr)}]
           ended(q, result) == [q EXCEPT !.last = [posts |-> q.posts, waits |-> q.waits,
                                                  result |-> result]]
       IN IF none
          THEN /\ outcome = "fail"
               /\ rt' = [rt EXCEPT ![j] =
                           AfterStrategy(Noted(ended(r, "type_error"), "error"),
                                         config, FALSE)]
               /\ UNCHANGED segments
          ELSE IF outcome = "fail" /\ r.attempt < config.http_retries - 1
          THEN /\ rt' = [rt EXCEPT ![j] =
                           [posted EXCEPT !.attempt = @ + 1,
                                          !.waits = Append(@, Pow2(r.attempt))]]
               /\ UNCHANGED segments
          ELSE IF outcome = "fail"
          THEN /\ rt' = [rt EXCEPT ![j] =
                           AfterStrategy(Noted(ended(posted, "raised"), "exhausted"),
                                         config, FALSE)]
               /\ UNCHANGED segments
          ELSE LET replaced == IF r.strategy = "A" THEN Accepts(outcome)
                               ELSE outcome # "empty"
               IN /\ rt' = [rt EXCEPT ![j] =
                              AfterStrategy(Noted(ended(posted, "returned"), outcome),
                                            config, replaced)]
                  /\ segments' =
                        IF replaced
                        THEN [segments EXCEPT ![j][idx] =
                                Replaced(segments[j][idx], outcome,
                                         IF r.strategy = "A" THEN "medium" ELSE "large")]
                        ELSE segments
    /\ UNCHANGED << workerVars, diskVars, backendVars, setupVars, apiVars, audioVars, liveVars, wsVars, textVars, attrVars, dirVars, bootVars, gatewayVars >>

\* ------------------------------------------ the stages that enrich segments
\* the transcript texts of the model: the Gateway's text of a short segment, the text
\* a retry answers with, and a longer utterance that holds an e-mail address
ShortText == "text"
RetriedText == "retried"
LongText == "mejla anna@example.com tack"

\* len(text.strip())
TextLen(text) ==
    IF text = ShortText THEN 4
    ELSE IF text = RetriedText THEN 7
    ELSE IF text = LongText THEN 27
    ELSE IF text \in {ProfaneText, ProfaneProcessed} THEN 35
    ELSE 0

MIN_TEXT_LENGTH == 10

\* text_processing.py, _capitalize_sentences after _normalize_punctuation (the texts
\* hold no unicode punctuation): the first letter of each sentence in upper case
capitalize_sentences(text) ==
    IF text = ShortText THEN "Text"
    ELSE IF text = RetriedText THEN "Retried"
    ELSE IF text = LongText THEN "Mejla anna@example.com tack"
    ELSE IF text = ProfaneText THEN ProfaneProcessed
    ELSE text

\* _split_subtitle_lines: a text of at most 42 characters is one line, no text no line
split_subtitle_lines(text) == IF text = "" THEN << >> ELSE << text >>

\* the words of the subtitle texts: a long compound, a short word and a link that is
\* longer than a line
LongWord == "inspelningsutrustning"
ShortWord == "ja"
LinkWord == "https://example.com/moten/2024/protokoll-styrelsen"

\* len(word)
WordLen(word) ==
    IF word = LongWord THEN 21
    ELSE IF word = ShortWord THEN 2
    ELSE IF word = LinkWord THEN 50
    ELSE 0

\* len(" ".join(line)) of a line given as its words
RECURSIVE LineLen(_)
LineLen(line) ==
    IF line = << >> THEN 0
    ELSE IF Len(line) = 1 THEN WordLen(line[1])
    ELSE WordLen(Head(line)) + 1 + LineLen(Tail(line))

\* words.index(word): the first position of the word
Index(words, word) == CHOOSE i \in 1..Len(words) :
                         words[i] = word /\ \A k \in 1..(i - 1) : words[k] # word

\* the for loop of _split_subtitle_lines, from word i on
RECURSIVE SplitLoop(_, _, _, _, _)
SplitLoop(words, i, st, max_chars, max_lines) ==
    IF i > Len(words) THEN st
    ELSE LET word == words[i]
             test_line == Append(st.current_line, word)
         IN IF LineLen(test_line) <= max_chars
            THEN SplitLoop(words, i + 1, [st EXCEPT !.current_line = test_line],
                           max_chars, max_lines)
            ELSE LET lines == IF st.current_line # << >>
                              THEN Append(st.lines, st.current_line)
                              ELSE st.lines
                 IN IF Len(lines) >= max_lines
                    THEN LET remaining == SubSeq(words, Index(words, word) + 1,
                                                 Len(words))
                         IN [lines |-> [lines EXCEPT ![Len(lines)] =
                                            @ \o << word >> \o remaining],
                             current_line |-> << >>]
                    ELSE SplitLoop(words, i + 1,
                                   [lines |-> lines, current_line |-> << word >>],
                                   max_chars, max_lines)

\* _split_subtitle_lines on text.split(): each line is given as its words
SplitSubtitleLines(words, max_chars, max_lines) ==
    LET st == SplitLoop(words, 1, [lines |-> << >>, current_line |-> << >>],
                        max_chars, max_lines)
        lines == IF st.current_line = << >> THEN st.lines
                 ELSE IF Len(st.lines) >= max_lines
                 THEN [st.lines EXCEPT ![Len(st.lines)] = @ \o st.current_line]
                 ELSE Append(st.lines, st.current_line)
    IN SubSeq(lines, 1, IF Len(lines) < max_lines THEN Len(lines) ELSE max_lines)

\* no text split yet
NoSubtitle == [words |-> << >>, lines |-> NoneV]

\* process_text calls _split_subtitle_lines(text) with the default limits
SplitSubtitle(words) ==
    /\ subtitle.lines = NoneV
    /\ subtitle' = [words |-> words, lines |-> SplitSubtitleLines(words, 42, 2)]
    /\ UNCHANGED << workerVars, diskVars, backendVars, setupVars, apiVars, audioVars,
                    liveVars, wsVars, attrVars, dirVars, bootVars, gatewayVars, stageVars >>

\* a dict after seg[key] = value for every key of `writes`
Written(seg, writes) ==
    [k \in DOMAIN seg \cup DOMAIN writes |->
        IF k \in DOMAIN writes THEN writes[k] ELSE seg[k]]

\* a process_text that writes the processed text back into seg["text"]
process_text_in_place(segs, casing_profile) ==
    IF casing_profile = "verbatim" THEN segs
    ELSE [i \in 1..Len(segs) |->
            LET text == capitalize_sentences(Get(segs[i], "text", ""))
            IN Written(segs[i], [text |-> text])]
\* text_processing.py, process_text
process_text(segs, casing_profile) ==
    IF casing_profile = "verbatim" THEN segs
    ELSE [i \in 1..Len(segs) |->
            LET text == capitalize_sentences(Get(segs[i], "text", ""))
            IN IF casing_profile = "subtitle_friendly"
               THEN Written(segs[i], [subtitle_lines |-> split_subtitle_lines(text),
                                      processed_text |-> text])
               ELSE Written(segs[i], [processed_text |-> text])]

\* langdetect's detect_langs(text)[0] for the long text of the model
DetectedLang == [lang |-> "en", prob |-> Num(85714)]

\* language_detect.py, detect_segment_languages
detect_segment_languages(segs, file_language) ==
    [i \in 1..Len(segs) |->
        IF TextLen(Get(segs[i], "text", "")) < MIN_TEXT_LENGTH
        THEN Written(segs[i], [detected_language |-> file_language,
                               language_confidence |-> Num(100000),
                               language_switch |-> "False"])
        ELSE Written(segs[i], [detected_language |-> DetectedLang.lang,
                               language_confidence |-> Num(Round4(DetectedLang.prob[1])),
                               language_switch |->
                                   IF DetectedLang.lang # file_language THEN "True"
                                   ELSE "False"])]

\* the matches of the PII patterns and of the profanity pattern in a text
PiiMatches(text) ==
    IF text = LongText
    THEN << [type |-> "email", start_char |-> 6, end_char |-> 22,
             text |-> "anna@example.com"] >>
    ELSE IF text = ProfaneText
    THEN << [type |-> "email", start_char |-> 19, end_char |-> 35,
             text |-> "anna@example.com"],
            [type |-> "profanity", start_char |-> 0, end_char |-> 3, text |-> "fan"] >>
    ELSE IF text = ProfaneProcessed
    THEN << [type |-> "email", start_char |-> 19, end_char |-> 35,
             text |-> "anna@example.com"],
            [type |-> "profanity", start_char |-> 0, end_char |-> 3, text |-> "Fan"] >>
    ELSE << >>

\* pii_flagging.py, flag_pii
flag_pii(segs) ==
    [i \in 1..Len(segs) |->
        LET text == IF Get(segs[i], "text", "") # "" THEN segs[i].text
                    ELSE Get(segs[i], "processed_text", "")
            flags == PiiMatches(text)
        IN Written(segs[i], [pii_flags |-> flags,
                             has_pii |-> IF Len(flags) > 0 THEN "True" ELSE "False"])]

\* diarization.py, diarize: without audio_path every segment is of "UNKNOWN"; with it
\* each segment gets the speaker whose turn overlaps it most (one speaker here)
diarize(segs, audio_path) ==
    [i \in 1..Len(segs) |->
        Written(segs[i], [speaker_id |-> IF Truthy(audio_path) THEN "SPEAKER_00"
                                         ELSE "UNKNOWN"])]

\* the stage at pc[j] has returned
StageDone(j) ==
    pc[j] = "retry" =>
        \/ rt[j].pc = "done"
        \/ rt[j].pc = "idle" /\ RetrySkips(input[j], segments[j])

\* `segments` after the stage at pc[j] returned
StageResult(j) ==
    IF pc[j] = "confidence" THEN evaluate_confidence(segments[j])
    ELSE IF pc[j] = "diarization" THEN diarize(segments[j], input[j].audio_path)
    ELSE IF pc[j] = "language_detect" THEN detect_segment_languages(segments[j], "sv")
    ELSE IF pc[j] = "text_processing"
    THEN process_text(segments[j], Casing(config, input[j]))
    ELSE IF pc[j] = "pii_flagging" THEN flag_pii(segments[j])
    ELSE segments[j]

\* ---------------------------------------------------------- run_pipeline
\* await update_job(job_id, status="processing", current_step="init")
PipelineInit(j) ==
    /\ pc[j] = "starting"
    /\ jobs' = update_job(jobs, j, "processing", "init", NoneV, NoneV)
    /\ stepLog' = logged(stepLog, j, "init")
    /\ pc' = [pc EXCEPT ![j] = "init"]
    /\ segments' = [segments EXCEPT ![j] = input[j].segments]
    /\ UNCHANGED << input, exc, casingUsed, nextJob, queue, running, dispatcher,
                    permits, workerLoop, runMeta, rt >>
    /\ UNCHANGED << diskVars, backendVars, setupVars, apiVars, audioVars, liveVars, wsVars, textVars, attrVars, dirVars, bootVars, gatewayVars >>

\* the stage at pc[j] returned (after the retry stage, config._audio_base64 = None);
\* the next enabled stage's current_step is written
StageStep(j) ==
    /\ pc[j] \in StagePcs
    /\ ~DiarizerMissing(setup, input[j], pc[j])
    /\ pc[j] = "confidence" => ~ConfidenceRaises(segments[j])
    /\ StageDone(j)
    /\ segments' = [segments EXCEPT ![j] = StageResult(j)]
    /\ NextStep(config, input[j], pc[j]) # "done"
    /\ jobs' = update_job(jobs, j, NoneV, NextStep(config, input[j], pc[j]), NoneV,
                          NoneV)
    /\ stepLog' = logged(stepLog, j, NextStep(config, input[j], pc[j]))
    /\ pc' = [pc EXCEPT ![j] = NextStep(config, input[j], pc[j])]
    /\ casingUsed' = IF NextStep(config, input[j], pc[j]) = "text_processing"
                     THEN [casingUsed EXCEPT ![j] = Casing(config, input[j])]
                     ELSE casingUsed
    /\ audioAttr' = IF pc[j] = "retry" THEN NoneV ELSE audioAttr
    /\ UNCHANGED << input, exc, nextJob, queue, running, dispatcher, permits,
                    workerLoop, runMeta, rt >>
    /\ UNCHANGED << diskVars, backendVars, setupVars, apiVars, audioVars, liveVars, wsVars, textVars, dirVars, bootVars, gatewayVars >>

\* the last enabled stage returned:
\* await update_job(job_id, status="completed", current_step="done", result_data=result)
CompletedUpdate(j) ==
    /\ pc[j] \in StagePcs
    /\ ~DiarizerMissing(setup, input[j], pc[j])
    /\ pc[j] = "confidence" => ~ConfidenceRaises(segments[j])
    /\ StageDone(j)
    /\ segments' = [segments EXCEPT ![j] = StageResult(j)]
    /\ NextStep(config, input[j], pc[j]) = "done"
    /\ jobs' = update_job(jobs, j, "completed", "done", ResultData(setup, pc[j]), NoneV)
    /\ stepLog' = logged(stepLog, j, "done")
    /\ pc' = [pc EXCEPT ![j] = "completed"]
    /\ audioAttr' = IF pc[j] = "retry" THEN NoneV ELSE audioAttr
    /\ UNCHANGED << input, exc, casingUsed, nextJob, queue, running, dispatcher,
                    permits, workerLoop, runMeta, rt >>
    /\ UNCHANGED << diskVars, backendVars, setupVars, apiVars, audioVars, liveVars, wsVars, textVars, dirVars, bootVars, gatewayVars >>

\* a try block in which the writeback after the "completed" update can raise as well
RaisingPcsWriteback(inp) == {at \in StagePcs : CanRaise(inp, at)} \cup {"completed"}

\* the positions of run_pipeline's try block from which an exception reaches its
\* except clause
RaisingPcs(inp) == {at \in StagePcs : CanRaise(inp, at)}

\* the stage at pc[j] raised: except Exception as e:
\* await update_job(job_id, status="failed", error=str(e))
StageRaises(j, msg) ==
    /\ pc[j] \in RaisingPcs(input[j])
    /\ msg = ImportMsg <=> DiarizerMissing(setup, input[j], pc[j])
    /\ msg = TypeMsg <=> (pc[j] = "confidence" /\ ConfidenceRaises(segments[j]))
    /\ jobs' = update_job(jobs, j, "failed", NoneV, NoneV, msg)
    /\ exc' = [exc EXCEPT ![j] = msg]
    /\ pc' = [pc EXCEPT ![j] = "failed"]
    /\ UNCHANGED << input, stepLog, casingUsed, nextJob, queue, running, dispatcher,
                    permits, workerLoop, runMeta >>
    /\ UNCHANGED << diskVars, backendVars, setupVars, apiVars, audioVars, liveVars, wsVars, textVars, attrVars, dirVars, bootVars, gatewayVars, stageVars >>

\* str(e) of the exception an update_job call raises when the job store fails
StoreMsg == "database is locked"

\* _run_with_semaphore: update_job(status="running") raises; "async with" releases
\* the permit and the task, which nothing awaits, ends with the exception
RunningUpdateRaises(j) ==
    /\ pc[j] = "acquired"
    /\ pc' = [pc EXCEPT ![j] = "dropped"]
    /\ permits' = permits + 1
    /\ UNCHANGED << jobs, input, stepLog, exc, casingUsed, nextJob, queue, running,
                    dispatcher, workerLoop, runMeta >>
    /\ UNCHANGED << diskVars, backendVars, setupVars, apiVars, audioVars, liveVars, wsVars, textVars, attrVars, dirVars, bootVars, gatewayVars, stageVars >>

\* an update_job call of run_pipeline's try block raises, after "starting" or after a
\* stage that returned; the except clause records the failure
UpdateRaises(j) ==
    /\ \/ pc[j] = "starting"
       \/ /\ pc[j] \in StagePcs
          /\ ~DiarizerMissing(setup, input[j], pc[j])
          /\ pc[j] = "confidence" => ~ConfidenceRaises(segments[j])
          /\ StageDone(j)
    /\ jobs' = update_job(jobs, j, "failed", NoneV, NoneV, StoreMsg)
    /\ exc' = [exc EXCEPT ![j] = StoreMsg]
    /\ pc' = [pc EXCEPT ![j] = "failed"]
    /\ UNCHANGED << input, stepLog, casingUsed, nextJob, queue, running, dispatcher,
                    permits, workerLoop, runMeta >>
    /\ UNCHANGED << diskVars, backendVars, setupVars, apiVars, audioVars, liveVars, wsVars, textVars, attrVars, dirVars, bootVars, gatewayVars, stageVars >>

\* an exception reached the except clause and its update_job(status="failed") raises
\* as well: the exception leaves run_pipeline and "async with" releases the permit
FailedUpdateRaises(j) ==
    /\ \/ pc[j] = "starting"
       \/ pc[j] \in StagePcs /\ (StageDone(j) \/ pc[j] \in RaisingPcs(input[j]))
    /\ pc' = [pc EXCEPT ![j] = "dropped"]
    /\ permits' = permits + 1
    /\ UNCHANGED << jobs, input, stepLog, exc, casingUsed, nextJob, queue, running,
                    dispatcher, workerLoop, runMeta >>
    /\ UNCHANGED << diskVars, backendVars, setupVars, apiVars, audioVars, liveVars, wsVars, textVars, attrVars, dirVars, bootVars, gatewayVars, stageVars >>

\* run_pipeline returns and _run_with_semaphore leaves "async with": the permit is
\* released in the same synchronous block
Finish(j) ==
    /\ pc' = [pc EXCEPT ![j] = "finished"]
    /\ permits' = permits + 1
    /\ workerLoop' = 0

\* the `result` dict of a finished run: language, context_profile when the profile
\* exists, the segments of the last stage, and the summary when one was produced
ResultWithJobId(j) ==
    [ language |-> "sv",
      context_profile |-> IF HasProfile(input[j]) THEN input[j].context_profile
                          ELSE NoneV,
      segments |-> segments[j], summary |-> jobs[j].result_data, job_id |-> j ]
Result(j) ==
    [ language |-> "sv",
      context_profile |-> IF HasProfile(input[j]) THEN input[j].context_profile
                          ELSE NoneV,
      segments |-> segments[j], summary |-> jobs[j].result_data ]

\* after "completed": session_id = input_data.get("session_id"); if session_id:
\* _write_processed_result: isdir check, then open(output_path, "w")
WriteResultOpen(j, ok) ==
    /\ pc[j] = "completed"
    /\ workerLoop = 0
    /\ LET sid == input[j].session_id
           name == ResultName(input[j].context_profile)
       IN IF sid = NoSession \/ sid \notin sessDir
          THEN Finish(j) /\ UNCHANGED << resultFile, resultData >>
          ELSE IF ok
          THEN /\ resultFile' = [resultFile EXCEPT ![sid][name] = "partial"]
               /\ resultData' = [resultData EXCEPT ![sid][name] = << >>]
               /\ pc' = [pc EXCEPT ![j] = "result_open"]
               /\ workerLoop' = j
               /\ UNCHANGED permits
          ELSE Finish(j) /\ UNCHANGED << resultFile, resultData >>
    /\ UNCHANGED << jobs, input, stepLog, exc, casingUsed, nextJob, queue, running,
                    dispatcher, runMeta >>
    /\ UNCHANGED << sessDir, sessionJson, backendVars, setupVars, apiVars, audioVars, liveVars, wsVars, textVars, attrVars, dirVars, bootVars, gatewayVars, stageVars >>

\* _write_processed_result: json.dump and close; on an exception it logs and returns
WriteResultDump(j, ok) ==
    /\ pc[j] = "result_open"
    /\ LET sid == input[j].session_id
           name == ResultName(input[j].context_profile)
       IN IF ok
          THEN /\ resultFile' = [resultFile EXCEPT ![sid][name] = "complete"]
               /\ resultData' = [resultData EXCEPT ![sid][name] = << Result(j) >>]
               /\ pc' = [pc EXCEPT ![j] = "result_done"]
               /\ UNCHANGED << permits, workerLoop >>
          ELSE Finish(j) /\ UNCHANGED << resultFile, resultData >>
    /\ UNCHANGED << jobs, input, stepLog, exc, casingUsed, nextJob, queue, running,
                    dispatcher, runMeta >>
    /\ UNCHANGED << sessDir, sessionJson, backendVars, setupVars, apiVars, audioVars, liveVars, wsVars, textVars, attrVars, dirVars, bootVars, gatewayVars, stageVars >>

\* _update_session_status: exists check and json.load; called with "completed" after
\* the result file was written, and with "failed" from the except clause
UpdateSessionRead(j) ==
    /\ \/ pc[j] = "result_done"
       \/ pc[j] = "failed" /\ workerLoop = 0
    /\ LET sid == input[j].session_id
       IN IF sid = NoSession \/ sessionJson[sid].state # "complete"
          THEN Finish(j) /\ UNCHANGED runMeta
          ELSE /\ runMeta' = [runMeta EXCEPT ![j] = sessionJson[sid].meta]
               /\ pc' = [pc EXCEPT ![j] = "upd_read"]
               /\ workerLoop' = j
               /\ UNCHANGED permits
    /\ UNCHANGED << jobs, input, stepLog, exc, casingUsed, nextJob, queue, running,
                    dispatcher >>
    /\ UNCHANGED << diskVars, backendVars, setupVars, apiVars, audioVars, liveVars, wsVars, textVars, attrVars, dirVars, bootVars, gatewayVars, stageVars >>

\* _update_session_status: open(meta_path, "w") truncates session.json
UpdateSessionOpen(j) ==
    /\ pc[j] = "upd_read"
    /\ sessionJson' = [sessionJson EXCEPT ![input[j].session_id] = PartialFile]
    /\ pc' = [pc EXCEPT ![j] = "upd_open"]
    /\ UNCHANGED << jobs, input, stepLog, exc, casingUsed, nextJob, queue, running,
                    dispatcher, permits, workerLoop, runMeta >>
    /\ UNCHANGED << sessDir, resultFile, resultData, backendVars, setupVars, apiVars, audioVars, liveVars, wsVars, textVars, attrVars, dirVars, bootVars, gatewayVars, stageVars >>

\* the status argument of the _update_session_status call the job is in
StatusArg(j) == IF exc[j] = NoneV THEN "completed" ELSE "failed"

\* _update_session_status: json.dump of the meta it read, with its keys set
UpdateSessionDump(j) ==
    /\ pc[j] = "upd_open"
    /\ sessionJson' = [sessionJson EXCEPT ![input[j].session_id] =
          FullFile(DictUpdate(runMeta[j], RunnerUpdates(StatusArg(j), j, exc[j])))]
    /\ Finish(j)
    /\ UNCHANGED << jobs, input, stepLog, exc, casingUsed, nextJob, queue, running,
                    dispatcher, runMeta >>
    /\ UNCHANGED << sessDir, resultFile, resultData, backendVars, setupVars, apiVars, audioVars, liveVars, wsVars, textVars, attrVars, dirVars, bootVars, gatewayVars, stageVars >>

\* ------------------------------------------------- the ingest orchestrator
\* save_session: makedirs, audio.wav, then session.json
SaveSessionBody(s, kind, segs) ==
    /\ ing[s].pc = "none"
    /\ \A t \in Sessions : t < s => ing[t].pc # "none"
    /\ backendLoop = 0
    /\ sessDir' = sessDir \cup {s}
    /\ sessionJson' = [sessionJson EXCEPT ![s] = FullFile(BaseMeta(s, segs))]
    /\ ing' = [ing EXCEPT ![s] = [pc |-> "saved", kind |-> kind, job |-> 0,
                                  segments |-> segs]]
    /\ audioWav' = [audioWav EXCEPT ![s] = "complete"]
    /\ UNCHANGED << resultFile, resultData, ingMeta, backendLoop >>
    /\ UNCHANGED << workerVars, setupVars, apiVars, wsVars, textVars, attrVars, dirVars, bootVars, gatewayVars, stageVars >>

\* save_session called by ingest_audio_file, or by a finalize_realtime_session whose
\* connection is not followed
SaveSession(s, kind, segs) == SaveSessionBody(s, kind, segs) /\ UNCHANGED liveVars

\* session_id = f"{ts}_{profile}" with ts = strftime("%Y-%m-%d_%H-%M-%S"): the UTC
\* second and the profile, and nothing else (the timestamp has a fixed width, so two
\* names are equal iff both parts are)
session_id(ts, profile) == << ts, profile >>

\* SESSIONS_DIR is empty, the clock is at second 0, save_session was not called
NoSaves == [now |-> 0, dirs |-> << >>, returned |-> << >>]

\* the UTC clock passes to the next second
ClockTick ==
    /\ sessionsDir.now < MaxSeconds
    /\ sessionsDir' = [sessionsDir EXCEPT !.now = @ + 1]
    /\ UNCHANGED << workerVars, diskVars, backendVars, setupVars, apiVars, audioVars,
                    liveVars, wsVars, textVars, attrVars, bootVars, gatewayVars,
                    stageVars >>

\* dirs after makedirs(d, exist_ok=True) and the writes of one call: a file is named by
\* the number of the call that wrote it (negative: ffmpeg left it partial), 0 is no
\* file, and a call that writes nothing to a path leaves what is there
DirWritten(dirs, d, wav, json) ==
    LET old == IF d \in DOMAIN dirs THEN dirs[d]
               ELSE [audio_wav |-> 0, session_json |-> 0]
    IN [x \in DOMAIN dirs \cup {d} |->
           IF x = d
           THEN [audio_wav |-> IF wav = 0 THEN old.audio_wav ELSE wav,
                 session_json |-> IF json = 0 THEN old.session_json ELSE json]
           ELSE dirs[x]]

\* save_session, one whole call (it runs synchronously on the event loop, the name is
\* taken from the clock at the call): with no chunk it returns None and touches
\* nothing; otherwise it makes the directory and converts the audio (ffmpeg -y
\* replaces the file), returns None when the conversion raises, having left a partial
\* audio.wav or none, and else writes session.json (open(meta_path, "w")) and returns
\* the directory
SaveSessionAt(profile, chunks, left) ==
    /\ Len(sessionsDir.returned) < MaxSaves
    /\ LET n == Len(sessionsDir.returned) + 1
           d == session_id(sessionsDir.now, profile)
       IN sessionsDir' =
            IF chunks = 0
            THEN [sessionsDir EXCEPT !.returned = Append(@, Null)]
            ELSE IF left = "kept"
            THEN [sessionsDir EXCEPT !.dirs = DirWritten(@, d, 0, 0),
                                     !.returned = Append(@, Null)]
            ELSE IF left = "partial"
            THEN [sessionsDir EXCEPT !.dirs = DirWritten(@, d, -n, 0),
                                     !.returned = Append(@, Null)]
            ELSE [sessionsDir EXCEPT !.dirs = DirWritten(@, d, n, n),
                                     !.returned = Append(@, d)]
    /\ UNCHANGED << workerVars, diskVars, backendVars, setupVars, apiVars, audioVars,
                    liveVars, wsVars, textVars, attrVars, bootVars, gatewayVars,
                    stageVars >>

\* save_session when _concat_chunks_to_wav raises: the directory exists (makedirs
\* with exist_ok, under a name of second resolution that an earlier save of the same
\* second and profile may have used), ffmpeg left a partial audio.wav or did not
\* touch the path, and save_session returns None before it
\* opens session.json; ingest_audio_file raises and finalize_realtime_session
\* returns None, neither reaching submit_post_processing
SaveSessionFails(s, left) ==
    /\ backendLoop = 0
    /\ \/ ing[s].pc = "none" /\ \A t \in Sessions : t < s => ing[t].pc # "none"
       \/ s \in sessDir
    /\ sessDir' = sessDir \cup {s}
    /\ audioWav' = [audioWav EXCEPT ![s] = IF left = "kept" THEN @ ELSE left]
    /\ UNCHANGED << sessionJson, resultFile, resultData >>
    /\ UNCHANGED << workerVars, backendVars, setupVars, apiVars, liveVars, wsVars, textVars, attrVars, dirVars, bootVars, gatewayVars, stageVars >>

\* list_sessions: the directories whose session.json exists and loads
list_sessions(dirs, files) == {s \in dirs : files[s].state = "complete"}

\* ingest_audio_file / finalize_realtime_session: submit_post_processing reaches the
\* worker's submit_job
SubmitIngest(s, ctx) ==
    /\ ing[s].pc = "saved"
    /\ submit_job([session_id |-> s, context_profile |-> ctx,
                   audio_path |-> "audio.wav", audio_base64 |-> NoneV,
                   segments |-> ing[s].segments])
    /\ ing' = [ing EXCEPT ![s].pc = "posted", ![s].job = nextJob]
    /\ UNCHANGED << stepLog, exc, casingUsed, queue, running, dispatcher, permits,
                    workerLoop, runMeta >>
    /\ UNCHANGED << diskVars, ingMeta, backendLoop, setupVars, apiVars, audioVars, liveVars, wsVars, textVars, attrVars, dirVars, bootVars, gatewayVars, stageVars >>

\* submit_post_processing returns None: the POST failed or timed out
SubmitFails(s) ==
    /\ ing[s].pc \in {"saved", "posted"}
    /\ ing' = [ing EXCEPT ![s].pc = "returned"]
    /\ UNCHANGED << ingMeta, backendLoop >>
    /\ UNCHANGED << workerVars, diskVars, setupVars, apiVars, audioVars, liveVars, wsVars, textVars, attrVars, dirVars, bootVars, gatewayVars, stageVars >>

\* the response of submit_job arrived; if job_id: update_session_metadata, which
\* checks that session.json exists and loads it
IngestMetaRead(s) ==
    /\ ing[s].pc = "posted"
    /\ pc[ing[s].job] \notin {"created", "enq"}
    /\ backendLoop = 0
    /\ IF sessionJson[s].state # "complete"
       THEN /\ ing' = [ing EXCEPT ![s].pc = "returned"]
            /\ UNCHANGED << ingMeta, backendLoop >>
       ELSE /\ ingMeta' = [ingMeta EXCEPT ![s] = sessionJson[s].meta]
            /\ ing' = [ing EXCEPT ![s].pc = "meta_read"]
            /\ backendLoop' = s
    /\ UNCHANGED << workerVars, diskVars, setupVars, apiVars, audioVars, liveVars, wsVars, textVars, attrVars, dirVars, bootVars, gatewayVars, stageVars >>

\* update_session_metadata: open(meta_path, "w") truncates session.json
IngestMetaOpen(s) ==
    /\ ing[s].pc = "meta_read"
    /\ sessionJson' = [sessionJson EXCEPT ![s] = PartialFile]
    /\ ing' = [ing EXCEPT ![s].pc = "meta_open"]
    /\ UNCHANGED << sessDir, resultFile, resultData, ingMeta, backendLoop >>
    /\ UNCHANGED << workerVars, setupVars, apiVars, audioVars, liveVars, wsVars, textVars, attrVars, dirVars, bootVars, gatewayVars, stageVars >>

\* update_session_metadata: meta.update(updates); json.dump
IngestMetaDump(s) ==
    /\ ing[s].pc = "meta_open"
    /\ sessionJson' = [sessionJson EXCEPT ![s] =
          FullFile(DictUpdate(ingMeta[s], IngestUpdates(ing[s].kind, ing[s].job)))]
    /\ ing' = [ing EXCEPT ![s].pc = "returned"]
    /\ backendLoop' = 0
    /\ UNCHANGED << sessDir, resultFile, resultData, ingMeta >>
    /\ UNCHANGED << workerVars, setupVars, apiVars, audioVars, liveVars, wsVars, textVars, attrVars, dirVars, bootVars, gatewayVars, stageVars >>

\* ------------------------------------------- routers/realtime.py, /ws/transcribe
\* chunks shorter than this are skipped
MIN_CHUNK_BYTES == 500

\* a skip that drops a chunk of exactly the threshold length as well
SkipsChunkInclusive(size) == size = 0 \/ size <= MIN_CHUNK_BYTES

\* if not data: continue; if len(data) < 500: continue
SkipsChunk(size) == size = 0 \/ size < MIN_CHUNK_BYTES

\* the lengths of the binary messages a caller sends
ChunkSizes == {0, 499, 500, 501}

\* what transcribe_audio gives for a chunk: an exception (conversion or Gateway), or
\* a response whose text is speech, empty, blank, or matches _NOISE_RE
TranscribeOutcomes == {"error", "speech", "empty", "blank", "noise"}

\* result.get("text", "") of a response
ResponseText(outcome) ==
    IF outcome = "speech" THEN " hej "
    ELSE IF outcome = "blank" THEN "   "
    ELSE IF outcome = "noise" THEN " ... "
    ELSE ""

\* str.strip()
Strip(text) ==
    IF text = " hej " THEN "hej"
    ELSE IF text = "   " THEN ""
    ELSE IF text = " ... " THEN "..."
    ELSE text

\* _NOISE_RE.match(text): nothing but whitespace and punctuation
NoiseMatch(text) == text \in {"", "...", "   ", " ... "}

\* a filter that lets punctuation-only text through
SkippedEmptyOnly(outcome) == Strip(ResponseText(outcome)) = ""

\* if not text or _NOISE_RE.match(text): continue
Skipped(outcome) ==
    Strip(ResponseText(outcome)) = "" \/ NoiseMatch(Strip(ResponseText(outcome)))

\* the handler after ws.accept(): chunk_index = 0, audio_chunks = [], transcripts = [];
\* `arrived` and `calls` record the messages received and the transcribe_audio calls,
\* `sent` the send_text calls and whether the caller got the message
LiveAccepted ==
    [ phase |-> "open", connected |-> TRUE, chunk_index |-> 0, arrived |-> << >>,
      audio_chunks |-> << >>, calls |-> << >>, transcripts |-> << >>, sent |-> << >> ]

\* one turn of the loop up to the transcription: receive_bytes, the two skips,
\* audio_chunks.append(data), and the call of transcribe_audio
LiveReceive(size) ==
    /\ live.phase = "open"
    /\ live.connected
    /\ Len(live.arrived) < MaxChunks
    /\ LET n == Len(live.arrived) + 1
           got == [live EXCEPT !.arrived = Append(@, size)]
       IN live' = IF SkipsChunk(size) THEN got
                  ELSE [got EXCEPT !.audio_chunks = Append(@, [n |-> n, size |-> size]),
                                   !.calls = Append(@, n),
                                   !.phase = "transcribing"]
    /\ UNCHANGED << workerVars, diskVars, backendVars, setupVars, apiVars, audioVars,
                    wsVars, textVars, attrVars, dirVars, bootVars, gatewayVars, stageVars >>

\* the caller closes the connection: a handler waiting in receive_bytes gets
\* WebSocketDisconnect, one waiting for a transcription learns of it later
LiveDisconnect ==
    /\ live.connected
    /\ live.phase \in {"open", "transcribing"}
    /\ live' = [live EXCEPT !.connected = FALSE,
                            !.phase = IF @ = "open" THEN "closing" ELSE @]
    /\ UNCHANGED << workerVars, diskVars, backendVars, setupVars, apiVars, audioVars,
                    wsVars, textVars, attrVars, dirVars, bootVars, gatewayVars, stageVars >>

\* transcribe_audio returned or raised: an exception is reported by send_text; a
\* response with no text or noise is skipped; any other is appended to transcripts
\* and then sent with chunk_index, which is incremented after the send. A send to a
\* caller that is gone either raises (then the except clause's own send raises as
\* well and the loop is left) or is dropped by the server, whichever the installed
\* ASGI server does.
LiveTranscribed(outcome, raises) ==
    /\ live.phase = "transcribing"
    /\ live.connected => ~raises
    /\ LET n == live.calls[Len(live.calls)]
           after == IF raises THEN "closing" ELSE "open"
           message(kind) == [kind |-> kind, chunk |-> live.chunk_index, n |-> n,
                             delivered |-> live.connected]
       IN live' =
            IF outcome = "error"
            THEN [live EXCEPT !.sent = Append(@, message("error")), !.phase = after]
            ELSE IF Skipped(outcome)
            THEN [live EXCEPT !.phase = "open"]
            ELSE [live EXCEPT !.transcripts = Append(@, [n |-> n,
                                                         text |-> ResponseText(outcome),
                                                         segments |-> << GoodSeg >>]),
                              !.sent = Append(@, message("transcript")),
                              !.chunk_index = IF raises THEN @ ELSE @ + 1,
                              !.phase = after]
    /\ UNCHANGED << workerVars, diskVars, backendVars, setupVars, apiVars, audioVars,
                    wsVars, textVars, attrVars, dirVars, bootVars, gatewayVars, stageVars >>

\* receive_bytes of a connection the caller closed during the transcription
LiveReceiveFails ==
    /\ live.phase = "open"
    /\ ~live.connected
    /\ live' = [live EXCEPT !.phase = "closing"]
    /\ UNCHANGED << workerVars, diskVars, backendVars, setupVars, apiVars, audioVars,
                    wsVars, textVars, attrVars, dirVars, bootVars, gatewayVars, stageVars >>

\* all_segments of finalize_realtime_session and save_session
RECURSIVE AllSegments(_)
AllSegments(transcripts) ==
    IF transcripts = << >> THEN << >>
    ELSE Head(transcripts).segments \o AllSegments(Tail(transcripts))

\* finally: with no audio_chunks nothing is saved
LiveEndsEmpty ==
    /\ live.phase = "closing"
    /\ live.audio_chunks = << >>
    /\ live' = [live EXCEPT !.phase = "closed"]
    /\ UNCHANGED << workerVars, diskVars, backendVars, setupVars, apiVars, audioVars,
                    wsVars, textVars, attrVars, dirVars, bootVars, gatewayVars, stageVars >>

\* finally: finalize_realtime_session saves audio_chunks and transcripts
LiveSave(s) ==
    /\ live.phase = "closing"
    /\ live.audio_chunks # << >>
    /\ SaveSessionBody(s, "realtime", AllSegments(live.transcripts))
    /\ live' = [live EXCEPT !.phase = "closed"]

\* one response of interpret_session
Answer(s, ctx, status, job_id) ==
    [session_id |-> s, context |-> ctx, status |-> status, job_id |-> job_id]

\* interpret_session: get_session loads session.json, segments must be non-empty,
\* then submit_post_processing, which puts context_profile in the payload only when
\* it is truthy; the job id comes back in a 200 response
SubmitInterpret(s, ctx) ==
    /\ backendLoop = 0
    /\ sessionJson[s].state = "complete"
    /\ Get(sessionJson[s].meta, "segments", << >>) # << >>
    /\ ctx # NoneV
    /\ submit_job([session_id |-> s,
                   context_profile |-> IF Truthy(ctx) THEN ctx ELSE NoneV,
                   audio_path |-> IF "audio_file" \in DOMAIN sessionJson[s].meta
                                  THEN "audio.wav" ELSE NoneV,
                   audio_base64 |-> NoneV,
                   segments |-> sessionJson[s].meta.segments])
    /\ interpretLog' = Append(interpretLog, Answer(s, ctx, 200, nextJob))
    /\ UNCHANGED << stepLog, exc, casingUsed, queue, running, dispatcher, permits,
                    workerLoop, runMeta >>
    /\ UNCHANGED << diskVars, backendVars, setupVars, audioVars, liveVars, wsVars, textVars, attrVars, dirVars, bootVars, gatewayVars, stageVars >>

\* interpret_session without a job: 404 when get_session finds no session.json, an
\* unhandled JSONDecodeError (500) when session.json is being rewritten, 400 when the
\* segments are empty or missing, 500 when submit_post_processing returned None
InterpretRefused(s, ctx, posted) ==
    /\ backendLoop = 0
    /\ ctx # NoneV
    /\ Len(interpretLog) < MaxInterprets
    /\ LET status ==
              IF sessionJson[s].state = "absent" THEN 404
              ELSE IF sessionJson[s].state = "partial" THEN 500
              ELSE IF Get(sessionJson[s].meta, "segments", << >>) = << >> THEN 400
              ELSE 500
       IN /\ status = 500 /\ sessionJson[s].state = "complete" => ~posted
          /\ ~(status = 500 /\ sessionJson[s].state = "complete") => posted
          /\ interpretLog' = Append(interpretLog, Answer(s, ctx, status, 0))
    /\ UNCHANGED << workerVars, diskVars, backendVars, setupVars, audioVars, liveVars, wsVars, textVars, attrVars, dirVars, bootVars, gatewayVars,
                    stageVars >>

\* ------------------------------------------------------- specifications
NoInput == [session_id |-> NoSession, context_profile |-> NoneV, audio_path |-> NoneV,
            audio_base64 |-> NoneV, segments |-> << >>]

InitWorkerState ==
    /\ jobs = [j \in {} |-> NewJobRow]
    /\ input = [j \in JobIds |-> NoInput]
    /\ pc = [j \in JobIds |-> "none"]
    /\ stepLog = [j \in JobIds |-> << >>]
    /\ exc = [j \in JobIds |-> NoneV]
    /\ casingUsed = [j \in JobIds |-> NoneV]
    /\ nextJob = 1
    /\ queue = << >>
    /\ running = TRUE
    /\ dispatcher = "waiting"
    /\ permits = config.max_concurrent_jobs
    /\ workerLoop = 0
    /\ runMeta = [j \in JobIds |-> EmptyMeta]
    /\ sessDir = {}
    /\ sessionJson = [s \in Sessions |-> NoFile]
    /\ resultFile = [s \in Sessions |-> [n \in ResultNames |-> "absent"]]
    /\ resultData = [s \in Sessions |-> [n \in ResultNames |-> << >>]]
    /\ ing = [s \in Sessions |-> [pc |-> "none", kind |-> "ingest", job |-> 0,
                                   segments |-> << >>]]
    /\ ingMeta = [s \in Sessions |-> EmptyMeta]
    /\ backendLoop = 0
    /\ segments = [j \in JobIds |-> << >>]
    /\ rt = [j \in JobIds |-> RetryIdle]
    /\ interpretLog = << >>
    /\ audioWav = [s \in Sessions |-> "absent"]
    /\ live = LiveAccepted
    /\ ws = WsIdle
    /\ reply = NoReply
    /\ subtitle = NoSubtitle
    /\ audioAttr = NoneV
    /\ sessionsDir = NoSaves
    /\ boots = 1

\* the worker and backend before any request, beside a Gateway that has not started
InitState ==
    /\ InitWorkerState
    /\ gateway = GatewayProcess(FALSE, FALSE, FALSE)

\* the worker serving ingests, re-interpretations and direct posts
Init ==
    /\ config = ShortConfig
    /\ setup = [contexts |-> {NoneV, "raw"}, audio |-> {NoneV},
                directSessions |-> {NoSession}, jobLimit |-> IngestJobs,
                diarizer_installed |-> TRUE, llm_reachable |-> TRUE,
                audio64 |-> {NoneV}, segments |-> {<< GoodSeg >>}]
    /\ InitState

\* the job queue alone: direct posts without a session, one to MaxPermits permits
InitQueue ==
    /\ config \in {[ShortConfig EXCEPT !.max_concurrent_jobs = n] : n \in 1..MaxPermits}
    /\ setup = [contexts |-> {NoneV}, audio |-> {NoneV},
                directSessions |-> {NoSession}, jobLimit |-> MaxJobs,
                diarizer_installed |-> TRUE, llm_reachable |-> TRUE,
                audio64 |-> {NoneV}, segments |-> {<< >>}]
    /\ InitState

\* one permit, every combination of feature flags, casing and context profile
InitFlags ==
    /\ config \in {c \in AllConfigs : c.max_concurrent_jobs = 1}
    /\ setup = [contexts |-> AllContexts, audio |-> {NoneV, "audio.wav"},
                directSessions |-> {NoSession}, jobLimit |-> FlagJobs,
                diarizer_installed |-> TRUE, llm_reachable |-> TRUE,
                audio64 |-> {NoneV}, segments |-> {<< >>}]
    /\ InitState

\* one permit, summary and diarization switched on or off by configuration and by
\* every context profile, with the diarizer library present or missing and the LLM
\* reachable or not
InitFaults ==
    /\ config \in {[ShortConfig EXCEPT !.summary_enabled = sm, !.diarization_enabled = d]
                      : sm \in BOOLEAN, d \in BOOLEAN}
    /\ setup \in [contexts : {AllContexts}, audio : {{NoneV, "audio.wav"}},
                   directSessions : {{NoSession}}, jobLimit : {FlagJobs},
                   diarizer_installed : BOOLEAN, llm_reachable : BOOLEAN,
                   audio64 : {{NoneV}}, segments : {{<< >>}}]
    /\ InitState

WorkerNext ==
    \/ \E j \in JobIds : EnqueueUpdate(j)
    \/ \E j \in JobIds : EnqueuePut(j)
    \/ DispatcherRun
    \/ \E j \in JobIds : Acquire(j)
    \/ \E j \in JobIds : RunningUpdate(j)
    \/ \E j \in JobIds : PipelineInit(j)
    \/ \E j \in JobIds : StageStep(j)
    \/ \E j \in JobIds : CompletedUpdate(j)
    \/ \E j \in JobIds, msg \in ExcMsgs \cup {ImportMsg, TypeMsg} : StageRaises(j, msg)
    \/ \E j \in JobIds, ok \in BOOLEAN : WriteResultOpen(j, ok)
    \/ \E j \in JobIds, ok \in BOOLEAN : WriteResultDump(j, ok)
    \/ \E j \in JobIds : UpdateSessionRead(j)
    \/ \E j \in JobIds : UpdateSessionOpen(j)
    \/ \E j \in JobIds : UpdateSessionDump(j)

Next ==
    \/ WorkerNext
    \/ Shutdown
    \/ \E sid \in setup.directSessions, ctx \in setup.contexts, a \in setup.audio,
          b64 \in setup.audio64, segs \in setup.segments :
          SubmitDirect(sid, ctx, a, b64, segs)
    \/ \E s \in Sessions, kind \in {"ingest", "realtime"}, segs \in setup.segments :
          SaveSession(s, kind, segs)
    \/ \E s \in Sessions, ctx \in setup.contexts : SubmitIngest(s, ctx)
    \/ \E s \in Sessions : SubmitFails(s)
    \/ \E s \in Sessions : IngestMetaRead(s)
    \/ \E s \in Sessions : IngestMetaOpen(s)
    \/ \E s \in Sessions : IngestMetaDump(s)
    \/ \E s \in Sessions, ctx \in setup.contexts : SubmitInterpret(s, ctx)

Spec == Init /\ [][Next]_vars

QueueNext ==
    \/ \E sid \in setup.directSessions, ctx \in setup.contexts, a \in setup.audio,
          b64 \in setup.audio64, segs \in setup.segments :
          SubmitDirect(sid, ctx, a, b64, segs)
    \/ \E j \in JobIds : EnqueueUpdate(j)
    \/ \E j \in JobIds : EnqueuePut(j)
    \/ DispatcherRun
    \/ \E j \in JobIds : Acquire(j)
    \/ \E j \in JobIds : RunningUpdate(j)
    \/ \E j \in JobIds : PipelineInit(j)
    \/ \E j \in JobIds : StageStep(j)
    \/ \E j \in JobIds : CompletedUpdate(j)
    \/ \E j \in JobIds, msg \in ExcMsgs \cup {ImportMsg, TypeMsg} : StageRaises(j, msg)
    \/ \E j \in JobIds, ok \in BOOLEAN : WriteResultOpen(j, ok)
    \/ \E j \in JobIds : UpdateSessionRead(j)
    \/ Shutdown

SpecQueue == InitQueue /\ [][QueueNext]_vars

SpecFlags == InitFlags /\ [][QueueNext]_vars

SpecFaults == InitFaults /\ [][QueueNext]_vars

\* the retry stage switched on: 0 to MaxRetries attempts per call, with and without
\* the large model; direct posts with and without audio_base64, and ingests
InitRetry ==
    /\ config \in {[ShortConfig EXCEPT !.retry_enabled = TRUE, !.retry_with_large = l,
                                        !.http_retries = n]
                      : l \in BOOLEAN, n \in 0..MaxRetries}
    /\ setup = [contexts |-> {NoneV}, audio |-> {NoneV},
                directSessions |-> {NoSession}, jobLimit |-> RetryJobs,
                diarizer_installed |-> TRUE, llm_reachable |-> TRUE,
                audio64 |-> {NoneV, "b64"},
                segments |-> {<< BadSeg >>, << GoodSeg, BadSeg >>, << BadSeg, BadSeg >>}]
    /\ InitState

\* one job from its submission, directly or by an ingest, to the end of its pipeline
RetryNext ==
    \/ \E sid \in setup.directSessions, ctx \in setup.contexts, a \in setup.audio,
          b64 \in setup.audio64, segs \in setup.segments :
          SubmitDirect(sid, ctx, a, b64, segs)
    \/ \E s \in Sessions, kind \in {"ingest", "realtime"}, segs \in setup.segments :
          SaveSession(s, kind, segs)
    \/ \E s \in Sessions, ctx \in setup.contexts : SubmitIngest(s, ctx)
    \/ WorkerNext
    \/ \E j \in JobIds : RetryBegin(j)
    \/ \E j \in JobIds, outcome \in Outcomes : PostAttempt(j, outcome)

SpecRetry == InitRetry /\ [][RetryNext]_vars

\* one direct post of a one-segment transcription the Gateway returned
InitConf ==
    /\ config = ShortConfig
    /\ setup = [contexts |-> {NoneV}, audio |-> {NoneV},
                directSessions |-> {NoSession}, jobLimit |-> FlagJobs,
                diarizer_installed |-> TRUE, llm_reachable |-> TRUE,
                audio64 |-> {NoneV}, segments |-> GatewaySegments]
    /\ InitState

SpecConf == InitConf /\ [][QueueNext]_vars

\* the Gateway alone, in every environment, with no job submitted
InitGateway ==
    /\ config = ShortConfig
    /\ setup = [contexts |-> {NoneV}, audio |-> {NoneV},
                directSessions |-> {NoSession}, jobLimit |-> 0,
                diarizer_installed |-> TRUE, llm_reachable |-> TRUE,
                audio64 |-> {NoneV}, segments |-> {<< >>}]
    /\ InitWorkerState
    /\ gateway \in {GatewayProcess(e, i, d) : e \in BOOLEAN, i \in BOOLEAN, d \in BOOLEAN}

GatewayNext ==
    \/ \E loaded \in BOOLEAN : Lifespan(loaded)
    \/ \E profile \in Profiles, loaded \in BOOLEAN, ran \in BOOLEAN :
          TranscribeFile(profile, loaded, ran)
    \/ \E model \in RetryModels, loaded \in BOOLEAN, ran \in BOOLEAN :
          TranscribeRetry(model, loaded, ran)
    \/ \E profile \in Profiles, loaded \in BOOLEAN : WarmupModel(profile, loaded)
    \/ GatewayShutdown

SpecGateway == InitGateway /\ [][GatewayNext]_vars

\* a saved session that is interpreted, up to InterpretJobs times, under two contexts
InitInterpret ==
    /\ config = ShortConfig
    /\ setup = [contexts |-> {"meeting", "raw"}, audio |-> {NoneV},
                directSessions |-> {NoSession}, jobLimit |-> InterpretJobs,
                diarizer_installed |-> TRUE, llm_reachable |-> TRUE,
                audio64 |-> {NoneV}, segments |-> {<< GoodSeg >>, << EdgeSeg, BadSeg >>}]
    /\ InitState

InterpretNext ==
    \/ \E s \in Sessions, kind \in {"ingest", "realtime"}, segs \in setup.segments :
          SaveSession(s, kind, segs)
    \/ \E s \in Sessions, ctx \in setup.contexts : SubmitInterpret(s, ctx)
    \/ WorkerNext

SpecInterpret == InitInterpret /\ [][InterpretNext]_vars

\* a session with or without segments, its ingest job, and interpret_session calls
\* (with an empty and a known context) at any moment
InitApi ==
    /\ config = ShortConfig
    /\ setup = [contexts |-> {"", "meeting"}, audio |-> {NoneV},
                directSessions |-> {NoSession}, jobLimit |-> InterpretJobs,
                diarizer_installed |-> TRUE, llm_reachable |-> TRUE,
                audio64 |-> {NoneV}, segments |-> {<< >>, << EdgeSeg >>}]
    /\ InitState

ApiNext ==
    \/ \E s \in Sessions, kind \in {"ingest", "realtime"}, segs \in setup.segments :
          SaveSession(s, kind, segs)
    \/ \E s \in Sessions : SubmitIngest(s, NoneV)
    \/ \E s \in Sessions, ctx \in setup.contexts : SubmitInterpret(s, ctx)
    \/ \E s \in Sessions, ctx \in setup.contexts, posted \in BOOLEAN :
          InterpretRefused(s, ctx, posted)
    \/ WorkerNext

SpecApi == InitApi /\ [][ApiNext]_vars

\* one job under every combination of the feature flags, the casing profiles and the
\* context profiles, with and without audio and audio_base64
InitStages ==
    /\ config \in {c \in AllConfigs : c.max_concurrent_jobs = 1}
    /\ setup = [contexts |-> AllContexts, audio |-> {NoneV, "audio.wav"},
                directSessions |-> {NoSession}, jobLimit |-> StageJobs,
                diarizer_installed |-> TRUE, llm_reachable |-> TRUE,
                audio64 |-> {NoneV, "b64"}, segments |-> {<< LongSeg, BadSeg >>}]
    /\ InitState

SpecStages == InitStages /\ [][RetryNext]_vars

\* ingests whose audio conversion succeeds or fails, the jobs of those that succeed
InitSave ==
    /\ config = ShortConfig
    /\ setup = [contexts |-> {NoneV}, audio |-> {NoneV},
                directSessions |-> {NoSession}, jobLimit |-> IngestJobs,
                diarizer_installed |-> TRUE, llm_reachable |-> TRUE,
                audio64 |-> {NoneV}, segments |-> {<< GoodSeg >>}]
    /\ InitState

SaveNext ==
    \/ \E s \in Sessions, kind \in {"ingest", "realtime"}, segs \in setup.segments :
          SaveSession(s, kind, segs)
    \/ \E s \in Sessions, left \in {"partial", "kept"} : SaveSessionFails(s, left)
    \/ \E s \in Sessions, ctx \in setup.contexts : SubmitIngest(s, ctx)
    \/ \E s \in Sessions : SubmitFails(s)
    \/ \E s \in Sessions : IngestMetaRead(s)
    \/ \E s \in Sessions : IngestMetaOpen(s)
    \/ \E s \in Sessions : IngestMetaDump(s)
    \/ WorkerNext

SpecSave == InitSave /\ [][SaveNext]_vars

\* one /ws/transcribe connection: up to MaxChunks messages of every length around the
\* threshold, every outcome of each transcription, the caller leaving at any moment
InitLive ==
    /\ config = ShortConfig
    /\ setup = [contexts |-> {NoneV}, audio |-> {NoneV},
                directSessions |-> {NoSession}, jobLimit |-> IngestJobs,
                diarizer_installed |-> TRUE, llm_reachable |-> TRUE,
                audio64 |-> {NoneV}, segments |-> {<< GoodSeg >>}]
    /\ InitState

LiveNext ==
    \/ \E size \in ChunkSizes : LiveReceive(size)
    \/ LiveDisconnect
    \/ \E outcome \in TranscribeOutcomes, raises \in BOOLEAN :
          LiveTranscribed(outcome, raises)
    \/ LiveReceiveFails
    \/ LiveEndsEmpty
    \/ \E s \in Sessions : LiveSave(s)

SpecLive == InitLive /\ [][LiveNext]_vars

\* a saved session, and jobs on it under a recognised and an unrecognised context
\* name, from interpret_session and from direct posts to the worker
InitContexts ==
    /\ config = ShortConfig
    /\ setup = [contexts |-> {"meeting", "bogus"}, audio |-> {NoneV},
                directSessions |-> Sessions, jobLimit |-> InterpretJobs,
                diarizer_installed |-> TRUE, llm_reachable |-> TRUE,
                audio64 |-> {NoneV}, segments |-> {<< GoodSeg >>}]
    /\ InitState

ContextsNext ==
    \/ InterpretNext
    \/ \E sid \in setup.directSessions, ctx \in setup.contexts, a \in setup.audio,
          b64 \in setup.audio64, segs \in setup.segments :
          SubmitDirect(sid, ctx, a, b64, segs)

SpecContexts == InitContexts /\ [][ContextsNext]_vars

\* up to MaxSaves calls of save_session, by ingests and real-time finalizations under
\* either profile, within one second or seconds apart
InitNames == InitSave

NamesNext ==
    \/ ClockTick
    \/ \E profile \in DOMAIN PROFILE_CONFIG, chunks \in 0..1,
          left \in {"complete", "partial", "kept"} :
          SaveSessionAt(profile, chunks, left)

SpecNames == InitNames /\ [][NamesNext]_vars

\* one WebSocket connection to the Gateway in every environment: up to MaxFrames
\* frames of every action, under a profile of either backend
InitWs == InitGateway

WsNext ==
    \/ \E loaded \in BOOLEAN : Lifespan(loaded)
    \/ WsConnect
    \/ \E profile \in {"fast", "accurate", "bogus"} : WsStart(profile)
    \/ \E decodes \in BOOLEAN : WsAudio(decodes)
    \/ \E loaded \in BOOLEAN, ran \in BOOLEAN : WsProcess(loaded, ran)
    \/ WsStop
    \/ WsDisconnect

SpecWs == InitWs /\ [][WsNext]_vars

\* the texts of up to MaxWords words over the three words of the model
RECURSIVE WordLists(_)
WordLists(n) ==
    IF n = 0 THEN {<< >>}
    ELSE WordLists(n - 1)
            \cup {Append(w, x) : w \in WordLists(n - 1),
                                 x \in {LongWord, ShortWord, LinkWord}}

\* one call of _split_subtitle_lines, on any of those texts
InitText ==
    /\ config = ShortConfig
    /\ setup = [contexts |-> {NoneV}, audio |-> {NoneV},
                directSessions |-> {NoSession}, jobLimit |-> 0,
                diarizer_installed |-> TRUE, llm_reachable |-> TRUE,
                audio64 |-> {NoneV}, segments |-> {<< >>}]
    /\ InitState

TextNext == \E words \in WordLists(MaxWords) : SplitSubtitle(words)

SpecText == InitText /\ [][TextNext]_vars

\* one direct post, with text processing on and off under each casing profile and
\* with and without a context profile; PII flagging is on
InitPii ==
    /\ config \in {[ShortConfig EXCEPT !.text_processing_enabled = tp,
                                        !.casing_profile = c]
                      : tp \in BOOLEAN, c \in CasingProfiles}
    /\ setup = [contexts |-> {NoneV, "meeting"}, audio |-> {NoneV},
                directSessions |-> {NoSession}, jobLimit |-> FlagJobs,
                diarizer_installed |-> TRUE, llm_reachable |-> TRUE,
                audio64 |-> {NoneV},
                segments |-> {<< ProfaneSeg >>, << LongSeg, GoodSeg >>,
                              << ProcessedOnlySeg >>}]
    /\ InitState

SpecPii == InitPii /\ [][QueueNext]_vars

\* the job queue without a shutdown, with a job store whose calls return or raise
InitDrain ==
    /\ config \in {[ShortConfig EXCEPT !.max_concurrent_jobs = n] : n \in 1..MaxPermits}
    /\ setup = [contexts |-> {NoneV}, audio |-> {NoneV},
                directSessions |-> {NoSession}, jobLimit |-> DrainJobs,
                diarizer_installed |-> TRUE, llm_reachable |-> TRUE,
                audio64 |-> {NoneV}, segments |-> {<< >>}]
    /\ InitState

\* what the task of job j does next, from the "running" update on
TaskStep(j) ==
    \/ RunningUpdate(j)
    \/ RunningUpdateRaises(j)
    \/ PipelineInit(j)
    \/ StageStep(j)
    \/ CompletedUpdate(j)
    \/ \E msg \in ExcMsgs \cup {ImportMsg, TypeMsg} : StageRaises(j, msg)
    \/ UpdateRaises(j)
    \/ FailedUpdateRaises(j)
    \/ \E ok \in BOOLEAN : WriteResultOpen(j, ok)
    \/ UpdateSessionRead(j)

DrainNext ==
    \/ \E sid \in setup.directSessions, ctx \in setup.contexts, a \in setup.audio,
          b64 \in setup.audio64, segs \in setup.segments :
          SubmitDirect(sid, ctx, a, b64, segs)
    \/ \E j \in JobIds : EnqueueUpdate(j)
    \/ \E j \in JobIds : EnqueuePut(j)
    \/ DispatcherRun
    \/ \E j \in JobIds : Acquire(j)
    \/ \E j \in JobIds : TaskStep(j)

\* the event loop runs every task that can run; every call returns or raises; the
\* semaphore wakes its waiters in turn
DrainFair ==
    /\ WF_vars(DispatcherRun)
    /\ \A j \in JobIds :
          /\ WF_vars(EnqueueUpdate(j))
          /\ WF_vars(EnqueuePut(j))
          /\ SF_vars(Acquire(j))
          /\ WF_vars(TaskStep(j))

SpecDrain == InitDrain /\ [][DrainNext]_vars /\ DrainFair

\* the job queue with a job store whose calls return, and a process that is stopped
\* and started again at any moment, up to MaxBoots starts
InitRestart == InitDrain

\* what the task of job j does next when no call of the job store raises
RunStep(j) ==
    \/ RunningUpdate(j)
    \/ PipelineInit(j)
    \/ StageStep(j)
    \/ CompletedUpdate(j)
    \/ \E msg \in ExcMsgs \cup {ImportMsg, TypeMsg} : StageRaises(j, msg)
    \/ \E ok \in BOOLEAN : WriteResultOpen(j, ok)
    \/ UpdateSessionRead(j)

RestartNext ==
    \/ \E sid \in setup.directSessions, ctx \in setup.contexts, a \in setup.audio,
          b64 \in setup.audio64, segs \in setup.segments :
          SubmitDirect(sid, ctx, a, b64, segs)
    \/ \E j \in JobIds : EnqueueUpdate(j)
    \/ \E j \in JobIds : EnqueuePut(j)
    \/ DispatcherRun
    \/ \E j \in JobIds : Acquire(j)
    \/ \E j \in JobIds : RunStep(j)
    \/ ProcessRestart

\* the event loop of the running process runs every task that can run; the process is
\* not started again once it has been started MaxBoots times
RestartFair ==
    /\ WF_vars(DispatcherRun)
    /\ \A j \in JobIds :
          /\ WF_vars(EnqueueUpdate(j))
          /\ WF_vars(EnqueuePut(j))
          /\ SF_vars(Acquire(j))
          /\ WF_vars(RunStep(j))

SpecRestart == InitRestart /\ [][RestartNext]_vars /\ RestartFair

\* two permits and the retry stage switched on: direct posts that carry no audio, one
\* recording or another, each with a low-confidence segment, run side by side on the
\* one config object
InitShared ==
    /\ config = [ShortConfig EXCEPT !.retry_enabled = TRUE,
                                    !.pii_flagging_enabled = FALSE,
                                    !.max_concurrent_jobs = 2, !.http_retries = 2]
    /\ setup = [contexts |-> {NoneV}, audio |-> {NoneV},
                directSessions |-> {NoSession}, jobLimit |-> SharedJobs,
                diarizer_installed |-> TRUE, llm_reachable |-> TRUE,
                audio64 |-> {NoneV, "b64", "other64"}, segments |-> {<< BadSeg >>}]
    /\ InitState

SharedNext ==
    \/ QueueNext
    \/ \E j \in JobIds : RetryBegin(j)
    \/ \E j \in JobIds, outcome \in Outcomes : PostAttempt(j, outcome)

SpecShared == InitShared /\ [][SharedNext]_vars

\* ================================================================ claims
Range(f) == {f[i] : i \in DOMAIN f}

ResultFileOf(j) == resultFile[input[j].session_id][ResultName(input[j].context_profile)]

HasSessionDir(j) ==
    input[j].session_id # NoSession /\ input[j].session_id \in sessDir

\* C1: for every job with a session_id whose directory exists, whenever get_job
\* reports "completed" the result file is already completely written.
C1_ResultWrittenBeforeCompleted ==
    \A j \in DOMAIN jobs :
        (HasSessionDir(j) /\ jobs[j].status = "completed")
            => ResultFileOf(j) = "complete"

\* C2: for a job submitted by an ingest for session s: once the job is completed
\* (its result written and run_pipeline returned) and the ingest call has returned,
\* session.json of s has processing_status "completed".
C2_SessionStatusCompleted ==
    \A s \in Sessions :
        LET j == ing[s].job
        IN ( /\ j # 0
             /\ StatusOf(j) = "completed"
             /\ pc[j] = "finished"
             /\ ResultFileOf(j) = "complete"
             /\ ing[s].pc = "returned"
             /\ \A k \in JobIds \ {j} : pc[k] = "none" \/ input[k].session_id # s )
           => /\ sessionJson[s].state = "complete"
              /\ "processing_status" \in DOMAIN sessionJson[s].meta
              /\ sessionJson[s].meta.processing_status = "completed"

ActiveJobs == {j \in DOMAIN jobs : jobs[j].status \in {"running", "processing"}}

C3_WitnessTwoPermits ==
    /\ config.max_concurrent_jobs = 2
    /\ Cardinality({j \in DOMAIN jobs : jobs[j].status = "processing"}) = 2
    /\ \E k \in DOMAIN jobs : jobs[k].status = "queued" /\ pc[k] = "spawned"

StatusEdges ==
    { <<"", "pending">>, <<"pending", "queued">>, <<"queued", "running">>,
      <<"running", "processing">>, <<"processing", "completed">>,
      <<"processing", "failed">> }

StepOrder == << "queued", "starting", "init", "confidence", "retry", "diarization",
                "language_detect", "text_processing", "pii_flagging", "summary",
                "done" >>

Rank(step) == CHOOSE i \in 1..Len(StepOrder) : StepOrder[i] = step

Ran(j, step) == step \in Range(stepLog[j])

\* a step later than `step` in the order was written for job j
Past(j, step) == \E x \in Range(stepLog[j]) : Rank(x) > Rank(step)

\* C5: the current_step values written for a job are a strictly ascending selection
\* of queued, starting, init, confidence, retry, diarization, language_detect,
\* text_processing, pii_flagging, summary, done (so no stage runs twice or out of
\* order); confidence is present once anything after init is; "done" is the job's
\* current_step exactly when its status is "completed"; the store holds the last
\* value written.
C5_StepOrder ==
    \A j \in JobIds :
        /\ Range(stepLog[j]) \subseteq Range(StepOrder)
        /\ \A i \in 1..(Len(stepLog[j]) - 1) :
              Rank(stepLog[j][i]) < Rank(stepLog[j][i + 1])
        /\ Past(j, "init") => Ran(j, "confidence")
        /\ Ran(j, "done") <=> StatusOf(j) = "completed"
        /\ j \in DOMAIN jobs =>
              jobs[j].current_step =
                 IF stepLog[j] = << >> THEN "" ELSE stepLog[j][Len(stepLog[j])]

\* a completed job that went through every step
C5_Witness ==
    \E j \in DOMAIN jobs : jobs[j].status = "completed" /\ stepLog[j] = StepOrder

Raised(j) == exc[j] # NoneV

\* C6: when a stage of a job raises, the job's status is "failed" with error equal to
\* the exception message, current_step stays at the failing stage, result_data stays
\* null and the job writes no result file; and when the job's session has a
\* session.json, the except clause leaves session.json with processing_status
\* "failed" and processing_error set to the message.
C6_FailureRecorded ==
    [][\A j \in JobIds :
          /\ Raised(j)' =>
                /\ StatusOf(j)' = "failed"
                /\ jobs'[j].error = exc'[j]
                /\ jobs'[j].result_data = NoneV
                /\ jobs'[j].current_step = stepLog'[j][Len(stepLog'[j])]
                /\ pc'[j] \in {"failed", "upd_read", "upd_open", "finished"}
          /\ Raised(j) => jobs'[j] = jobs[j]
          /\ ( /\ Raised(j)
               /\ pc[j] # "finished" /\ pc'[j] = "finished"
               /\ input[j].session_id # NoSession
               /\ sessionJson[input[j].session_id].state # "absent" )
             => /\ sessionJson'[input[j].session_id].state = "complete"
                /\ "processing_error" \in DOMAIN sessionJson'[input[j].session_id].meta
                /\ sessionJson'[input[j].session_id].meta.processing_status = "failed"
                /\ sessionJson'[input[j].session_id].meta.processing_error = exc[j]
      ]_vars

\* the part of C6 about the job store and the result files alone
C6_JobStorePart ==
    [][\A j \in JobIds :
          /\ Raised(j)' =>
                /\ StatusOf(j)' = "failed"
                /\ jobs'[j].error = exc'[j]
                /\ jobs'[j].result_data = NoneV
                /\ jobs'[j].current_step = stepLog'[j][Len(stepLog'[j])]
                /\ pc'[j] \in {"failed", "upd_read", "upd_open", "finished"}
          /\ Raised(j) => jobs'[j] = jobs[j]
      ]_vars

RecognizedContexts == {"raw", "meeting", "brainstorm", "journal", "tech_notes"}

\* the profile of job j's context defines `key`
ProfileDefines(j, key) ==
    /\ input[j].context_profile \in RecognizedContexts
    /\ key \in DOMAIN CONTEXT_PROFILES[input[j].context_profile]

\* the effective value the claim gives: the profile's when it defines the key, else
\* the configuration's
Effective(j, key, attr) ==
    IF ProfileDefines(j, key) THEN CONTEXT_PROFILES[input[j].context_profile][key]
    ELSE config[attr]

\* the stage's step was written iff `flag`, for a job that has gone past the stage;
\* and never written without the flag
RunsIff(j, stage, flag) ==
    /\ Ran(j, stage) => flag
    /\ (Past(j, stage) /\ flag) => Ran(j, stage)

\* C7: a stage runs iff its effective flag is true: summary, pii_flagging, diarization
\* and text_processing follow the context profile when it is recognized and defines
\* the key and the configuration otherwise; retry and language_detect follow the
\* configuration alone; confidence always runs; process_text receives the profile's
\* casing when defined, else config.casing_profile.
C7_EffectiveFlags ==
    \A j \in JobIds :
        /\ RunsIff(j, "summary", Effective(j, "summary", "summary_enabled"))
        /\ RunsIff(j, "pii_flagging", Effective(j, "pii", "pii_flagging_enabled"))
        /\ RunsIff(j, "diarization", Effective(j, "diarization", "diarization_enabled"))
        /\ RunsIff(j, "text_processing",
                   Effective(j, "text_processing", "text_processing_enabled"))
        /\ RunsIff(j, "retry", config.retry_enabled)
        /\ RunsIff(j, "language_detect", config.language_detect_enabled)
        /\ RunsIff(j, "confidence", TRUE)
        /\ Ran(j, "text_processing") <=> casingUsed[j] # NoneV
        /\ casingUsed[j] # NoneV =>
              casingUsed[j] = Effective(j, "casing", "casing_profile")

\* a completed "meeting" job under a configuration with summary and diarization off
\* and verbatim casing: the profile switched both stages on and set the casing
C7_Witness ==
    \E j \in DOMAIN jobs :
        /\ input[j].context_profile = "meeting"
        /\ ~config.summary_enabled /\ ~config.diarization_enabled
        /\ config.casing_profile = "verbatim"
        /\ jobs[j].status = "completed"
        /\ Ran(j, "summary") /\ Ran(j, "diarization")
        /\ casingUsed[j] = "meeting_notes"

\* a completed "raw" job (a profile without casing) under a configuration with
\* text processing and PII flagging on: the profile switched both off
C7_WitnessRaw ==
    \E j \in DOMAIN jobs :
        /\ input[j].context_profile = "raw"
        /\ config.text_processing_enabled /\ config.pii_flagging_enabled
        /\ jobs[j].status = "completed"
        /\ ~Ran(j, "text_processing") /\ ~Ran(j, "pii_flagging")

\* C8: after shutdown() no enqueue takes effect: no job's status becomes "queued" and
\* nothing is added to the queue.
C8_NoEnqueueAfterShutdown ==
    [][~running =>
          /\ queue' = queue
          /\ \A j \in DOMAIN jobs' :
                jobs'[j].status = "queued" =>
                    (j \in DOMAIN jobs /\ jobs[j].status = "queued")]_vars

\* positions of a job's _run_with_semaphore task: waiting for a permit or in the pipeline
InFlightPcs == {"spawned", "acquired", "starting", "completed", "failed",
                "result_open", "result_done", "upd_read", "upd_open"} \cup StagePcs

\* C9: once shutdown() has returned, a job that is waiting for a permit or running
\* the pipeline takes no further step: no job-store update, no stage, no file write.
C9_ShutdownCancelsInFlight ==
    [][\A j \in JobIds :
          (~running /\ pc[j] \in InFlightPcs) =>
              /\ pc'[j] = pc[j]
              /\ j \in DOMAIN jobs => jobs'[j] = jobs[j]]_vars

\* run_pipeline has begun for job j
RunnerStarted(j) == StatusOf(j) \in {"processing", "completed", "failed"}

\* C10: for every session the orchestrator has finished all its writes to
\* session.json before the runner starts the session's job, and the two
\* read-modify-writes of one session.json never overlap.
C10_IngestWritesBeforeRunner ==
    \A s \in Sessions :
        /\ (ing[s].job # 0 /\ RunnerStarted(ing[s].job)) => ing[s].pc = "returned"
        /\ ~ ( /\ ing[s].pc \in {"meta_read", "meta_open"}
               /\ \E j \in JobIds : input[j].session_id = s
                                    /\ pc[j] \in {"upd_read", "upd_open"} )

\* the part of C10 that is about save_session: session.json is written before the
\* session's job exists
C10_SaveBeforeJob ==
    \A j \in DOMAIN jobs, s \in Sessions :
        ing[s].job = j => sessionJson[s].state # "absent" /\ s \in sessDir

\* job j takes the read step of _update_session_status in this transition
RunnerReads(j) ==
    /\ input[j].session_id # NoSession
    /\ \/ pc[j] = "result_done"
       \/ pc[j] = "failed" /\ workerLoop = 0
    /\ pc'[j] \in {"upd_read", "finished"}

\* C11: every rewrite of session.json is atomic: the read step of the other writer
\* (and any reader running beside a rewrite) finds the complete old or the complete
\* new content, never a truncated file.
C11_AtomicRewrite ==
    [][\A j \in JobIds :
          RunnerReads(j) => sessionJson[input[j].session_id].state # "partial"]_vars

\* the same statement for a reader of the backend (get_session, list_sessions) that
\* runs at any moment beside the worker process
C11_NeverTruncated ==
    \A s \in Sessions :
        (\E j \in JobIds : input[j].session_id = s /\ pc[j] = "upd_open")
            => sessionJson[s].state # "partial"

\* C12: a missing diarizer library or an unreachable LLM never fails a job: no job
\* is failed by the ImportError of _get_pipeline, a job whose diarization stage ran
\* without the library still completes, and a job whose summary stage ran against an
\* unreachable LLM completes with a result that has no summary.
C12_FaultsDoNotFailJob ==
    \A j \in DOMAIN jobs :
        /\ ~(jobs[j].status = "failed" /\ exc[j] = ImportMsg)
        /\ (Ran(j, "summary") /\ ~setup.llm_reachable /\ jobs[j].status = "completed")
              => jobs[j].result_data = "result"

\* the summary half of C12: an unreachable LLM leaves the result without a summary and
\* the summary call itself never fails the job for that reason
C12_SummaryPart ==
    \A j \in DOMAIN jobs :
        (Ran(j, "summary") /\ ~setup.llm_reachable /\ jobs[j].status = "completed")
            => jobs[j].result_data = "result"

\* a completed job whose summary stage ran against an unreachable LLM
C12_SummaryWitness ==
    \E j \in DOMAIN jobs :
        Ran(j, "summary") /\ ~setup.llm_reachable /\ jobs[j].status = "completed"

\* what each strategy got for job j's low segments, in one set
StrategyNotes(j) == Range(rt[j].a) \cup Range(rt[j].b)

\* some _post_with_retries call of job j failed on every one of its attempts
Exhausted(j) == \E n \in StrategyNotes(j) : n.resp = "exhausted"

\* C13: a Gateway retry call that fails on all its http_retries attempts fails the
\* retry stage: the job ends "failed" with current_step "retry"; and a job fails in
\* the retry stage for no other reason.
C13_ExhaustionFailsStage ==
    \A j \in DOMAIN jobs :
        /\ (Exhausted(j) /\ jobs[j].status \in {"completed", "failed"})
              => jobs[j].status = "failed" /\ jobs[j].current_step = "retry"
        /\ (jobs[j].status = "failed" /\ jobs[j].current_step = "retry") => Exhausted(j)

\* the part of C13 that holds: no failure of the retry stage is surfaced while
\* attempts remain (nor afterwards)
C13_NothingSurfacedEarly ==
    \A j \in DOMAIN jobs :
        ~(jobs[j].status = "failed" /\ jobs[j].current_step = "retry")

\* the waits http_retry_backoff * 2^0, 2^1, ... after n failed attempts, in units of
\* http_retry_backoff
Backoffs(n) == [i \in 1..n |-> Pow2(i - 1)]

\* the shape every _post_with_retries call has while it runs and when it returned or
\* raised the last HTTP error
CallShape(j) ==
    LET r == rt[j]
        n == config.http_retries
    IN /\ r.pc = "call" =>
             /\ r.posts <= n
             /\ r.posts = r.attempt
             /\ r.waits = Backoffs(r.attempt)
       /\ r.last.result = "returned" =>
             /\ r.last.posts <= n
             /\ r.last.waits = Backoffs(r.last.posts - 1)
       /\ r.last.result = "raised" =>
             /\ r.last.posts = n
             /\ r.last.waits = Backoffs(n - 1)

\* C14: a _post_with_retries call issues at most http_retries POSTs, returns the first
\* successful response at once, waits http_retry_backoff * 2^attempt after each failed
\* attempt but the last, and a call that does not return raises the last
\* HTTP/transport error -- for every http_retries >= 0.
C14_PostWithRetries ==
    \A j \in JobIds : CallShape(j) /\ rt[j].last.result \in {"none", "returned", "raised"}

\* the part of C14 that holds for every http_retries, 0 included
C14_CallShape == \A j \in JobIds : CallShape(j)

\* a call that failed twice, waited 1 and 2 units, and returned on its third POST, or
\* failed on all attempts after waiting between them
C14_Witness ==
    \E j \in JobIds :
        /\ config.http_retries = MaxRetries
        /\ rt[j].last.result = "raised"
        /\ rt[j].last.posts = MaxRetries
        /\ Len(rt[j].last.waits) = MaxRetries - 1

\* the segments of job j as the confidence stage leaves them
AfterConfidenceStage(j) == evaluate_confidence(input[j].segments)

\* job j was submitted by the orchestrator
FromOrchestrator(j) == input[j].session_id # NoSession

\* a POST to /transcribe/retry was issued for segment i of job j
SentToRetry(j, i) ==
    \E k \in 1..Len(rt[j].a) : rt[j].low[k] = i /\ rt[j].a[k].posts >= 1

\* C15: with retry_enabled, every segment the confidence stage marked low_confidence
\* has been sent to /transcribe/retry by the time the retry stage is over, for jobs
\* of the orchestrator and for direct posts that carry the audio.
C15_LowSegmentsSent ==
    \A j \in DOMAIN jobs :
        ( /\ config.retry_enabled
          /\ Past(j, "retry")
          /\ FromOrchestrator(j) \/ Truthy(input[j].audio_base64) )
        => \A i \in 1..Len(input[j].segments) :
              AfterConfidenceStage(j)[i].low_confidence = "True" => SentToRetry(j, i)

\* the part of C15 about direct posts that carry audio_base64, with http_retries >= 1
C15_DirectPart ==
    \A j \in DOMAIN jobs :
        ( /\ config.retry_enabled /\ config.http_retries >= 1
          /\ Past(j, "retry")
          /\ Truthy(input[j].audio_base64) )
        => \A i \in 1..Len(input[j].segments) :
              AfterConfidenceStage(j)[i].low_confidence = "True" => SentToRetry(j, i)

\* the k-th low segment of job j has been through its strategies
Settled(j, k) == k <= Len(rt[j].a) /\ k <= Len(rt[j].b)

\* what the retry stage must leave in place of low segment `seg`, given what strategy
\* A and strategy B returned
Expected(seg, a, b) ==
    IF a \in {"low", "good"} /\ a = "good" THEN Replaced(seg, a, "medium")
    ELSE IF config.retry_with_large /\ b \in {"low", "good"} THEN Replaced(seg, b, "large")
    ELSE seg

\* segment `seg` holds every field of `exp` with its value (the stages after retry
\* add fields of their own)
Agrees(seg, exp) == \A k \in DOMAIN exp : k \in DOMAIN seg /\ seg[k] = exp[k]

\* C16: a low-confidence segment is replaced with retry_model "medium" iff strategy A
\* returned a first segment that is not low-confidence; otherwise with "large" iff
\* retry_with_large and strategy B returned a segment; otherwise it stays as it was.
\* Strategy B is not called for a segment strategy A replaced (nor without
\* retry_with_large), segments that were not low-confidence never change, and
\* replaced segments carry retried = true. Until a later stage starts the segment is
\* exactly the expected one; afterwards it keeps every field of it.
C16_RetryReplacement ==
    \A j \in DOMAIN jobs :
        (Ran(j, "retry") /\ rt[j].pc # "idle") =>
            /\ \A k \in 1..Len(rt[j].low) : Settled(j, k) =>
                  LET i == rt[j].low[k]
                      a == rt[j].a[k].resp
                      b == rt[j].b[k].resp
                      exp == Expected(AfterConfidenceStage(j)[i], a, b)
                  IN /\ ~Past(j, "retry") => segments[j][i] = exp
                     /\ Agrees(segments[j][i], exp)
                     /\ b # "not_called" <=> (a # "good" /\ config.retry_with_large)
                     /\ ~Agrees(segments[j][i], AfterConfidenceStage(j)[i])
                           => Get(segments[j][i], "retried", NoneV) = "True"
                     /\ exp = AfterConfidenceStage(j)[i]
                           => "retried" \notin DOMAIN segments[j][i]
            /\ \A i \in 1..Len(segments[j]) :
                  AfterConfidenceStage(j)[i].low_confidence # "True"
                      => /\ ~Past(j, "retry")
                              => segments[j][i] = AfterConfidenceStage(j)[i]
                         /\ Agrees(segments[j][i], AfterConfidenceStage(j)[i])
                         /\ "retried" \notin DOMAIN segments[j][i]

\* a finished retry stage that replaced one segment with the medium model's and
\* another, whose strategy A answer was still low-confidence, with the large model's
C16_Witness ==
    \E j \in DOMAIN jobs :
        /\ rt[j].pc = "done"
        /\ Len(rt[j].low) = 2
        /\ rt[j].a[1].resp = "good" /\ segments[j][rt[j].low[1]].retry_model = "medium"
        /\ rt[j].a[2].resp = "low" /\ rt[j].b[2].resp = "low"
        /\ segments[j][rt[j].low[2]].retry_model = "large"

\* the confidence stage of job j has returned
ConfidenceDone(j) ==
    \E i \in 1..Len(stepLog[j]) - 1 : stepLog[j][i] = "confidence"

PyBool(b) == IF b THEN "True" ELSE "False"

\* the rule of C17 on the values of a segment; a metric that is absent or null does
\* not trigger
LowConfidenceRule(seg) ==
    LET has(k) == k \in DOMAIN seg /\ seg[k] # Null
        words == Get(seg, "words", << >>)
        weak == Cardinality({i \in 1..Len(words) :
                                /\ "probability" \in DOMAIN words[i]
                                /\ words[i].probability[1] < WordThreshold})
    IN \/ has("avg_logprob") /\ seg.avg_logprob[1] < LogprobThreshold
       \/ has("compression_ratio") /\ seg.compression_ratio[1] > CompressionThreshold
       \/ has("no_speech_prob") /\ seg.no_speech_prob[1] > NoSpeechThreshold
       \/ Len(words) > 0 /\ weak * 10 > 3 * Len(words)

\* job j carries the one segment the Gateway made of `raw`
CameFrom(j, raw, mlx) ==
    input[j].segments = << IF mlx THEN format_mlx_segment(raw) ELSE format_segment(raw) >>

\* C17: for every segment, the low_confidence flag the Gateway computed (either
\* backend) and the flag the pipeline's confidence stage computes for it both equal
\* the rule: avg_logprob < -1.0 or compression_ratio > 2.4 or no_speech_prob > 0.6 or
\* more than 0.3 of the words have probability < 0.3. Here: the stage computes a flag
\* for every segment of the Gateway (it does not raise), and that flag is the rule on
\* the values the Gateway measured.
C17_PipelineFlagIsRule ==
    \A j \in DOMAIN jobs :
        /\ exc[j] # TypeMsg
        /\ \A raw \in FwSegments :
              (CameFrom(j, raw, FALSE) /\ ConfidenceDone(j))
                  => segments[j][1].low_confidence = PyBool(LowConfidenceRule(raw))
        /\ \A raw \in MlxSegments :
              (CameFrom(j, raw, TRUE) /\ ConfidenceDone(j))
                  => segments[j][1].low_confidence = PyBool(LowConfidenceRule(raw))

\* C17, the Gateway's half: the flag of every segment either backend returns equals
\* the rule on the values the backend produced.
C17_GatewayFlagIsRule ==
    \A j \in DOMAIN jobs :
        /\ \A raw \in FwSegments :
              CameFrom(j, raw, FALSE)
                  => input[j].segments[1].low_confidence = PyBool(LowConfidenceRule(raw))
        /\ \A raw \in MlxSegments :
              CameFrom(j, raw, TRUE)
                  => input[j].segments[1].low_confidence = PyBool(LowConfidenceRule(raw))

\* C17, the stage on its own input: when the confidence stage returns, the flag it
\* wrote equals the rule on the (rounded) values of the segment it was given.
C17_StageFlagIsRuleOfInput ==
    \A j \in DOMAIN jobs :
        ConfidenceDone(j)
            => segments[j][1].low_confidence
                   = PyBool(LowConfidenceRule(input[j].segments[1]))

\* 3 weak words of 10 and a compression_ratio of exactly 2.4 passed the stage unflagged,
\* and 4 weak words of 10 were flagged
C17_StrictWitness ==
    /\ \E j \in DOMAIN jobs :
          /\ ConfidenceDone(j)
          /\ input[j].segments[1].compression_ratio = Num(CompressionThreshold)
          /\ CountWeak(input[j].segments[1].words) = 3
          /\ segments[j][1].low_confidence = "False"

\* C18: on every segment the Gateway can emit, null metrics included, the confidence
\* stage raises no error and writes the low_confidence value the Gateway computed.
C18_StageAgreesWithGateway ==
    \A j \in DOMAIN jobs :
        /\ exc[j] # TypeMsg
        /\ ConfidenceDone(j)
              => segments[j][1].low_confidence = input[j].segments[1].low_confidence

\* C18, first half alone: the stage raises no TypeError
C18_NoTypeError == \A j \in DOMAIN jobs : exc[j] # TypeMsg

\* C18, second half alone: where the stage returns, its flag is the Gateway's
C18_SameFlag ==
    \A j \in DOMAIN jobs :
        ConfidenceDone(j)
            => segments[j][1].low_confidence = input[j].segments[1].low_confidence

\* C18, second half for accelerator segments whose metrics are all numbers away from
\* the thresholds and whose words all carry a probability
C18_SameFlagPlainSegments ==
    \A j \in DOMAIN jobs :
        \A raw \in MlxSegments :
            (/\ CameFrom(j, raw, TRUE)
             /\ ConfidenceDone(j)
             /\ DOMAIN raw = MetricKeys
             /\ \A i \in 1..Len(raw.words) : "probability" \in DOMAIN raw.words[i])
                => segments[j][1].low_confidence = input[j].segments[1].low_confidence

\* the members of the cache of a backend
CacheOf(backend) ==
    IF backend = "mlx" THEN gateway.mlx_cache ELSE gateway.fw_cache

\* C19: per backend and model the cache entry moves only absent -> loading -> ready
\* and the model is loaded at most once per process. Here: once a transcribe, retry
\* or warmup has used a model, its entry is ready in the backend's cache for as long
\* as the Gateway serves.
C19_UsedModelIsReady ==
    gateway.phase = "serving"
        => \A key \in gateway.used : key[2] \in CacheOf(key[1])

\* C19: a request for a model that an earlier request used does not load it again.
C19_NoLoadAfterUse ==
    [][\A key \in ModelKeys :
          key \in gateway.used => gateway'.loads[key] = gateway.loads[key]]_vars

\* C19, the part about the count: no model is loaded twice by the Gateway's own
\* cache logic (WhisperModel constructions and warmup loads).
C19_LoadedAtMostOnce == \A key \in ModelKeys : gateway.loads[key] <= 1

\* C19, the part about entries: while the Gateway serves, no entry leaves a cache.
C19_EntryStaysReady ==
    [][(gateway.phase = "serving" /\ gateway'.phase = "serving")
          => /\ gateway.fw_cache \subseteq gateway'.fw_cache
             /\ gateway.mlx_cache \subseteq gateway'.mlx_cache]_vars

\* every model has been used and every entry that the code can fill is filled
C19_Witness ==
    /\ gateway.phase = "serving"
    /\ gateway.fw_cache = {Small, Medium, Large}
    /\ \A key \in ModelKeys \cap ({"faster_whisper"} \X {Small, Medium, Large}) :
          key \in gateway.used /\ gateway.loads[key] = 1

\* jobs a and b are interpretations of the same session under the same context
SameInterpretation(a, b) ==
    /\ input[a].session_id # NoSession
    /\ input[a].session_id = input[b].session_id
    /\ Truthy(input[a].context_profile)
    /\ input[a].context_profile = input[b].context_profile

Answers == Len(interpretLog') = Len(interpretLog) + 1

\* the answer of the call that answers in this step
Answered == interpretLog'[Len(interpretLog')]

\* the call found the worker unreachable: submit_post_processing returned None
SubmitFailed ==
    /\ Answered.status = 500
    /\ sessionJson[Answered.session_id].state = "complete"
    /\ Get(sessionJson[Answered.session_id].meta, "segments", << >>) # << >>

\* C21: interpret_session answers 404 for an unknown session and 400 for a session
\* without segments, creating no job; otherwise (the worker being reachable) it
\* answers 200 and creates exactly one job with the raw segments of session.json and
\* context_profile = context; it never writes session.json.
C21_InterpretContract ==
    [][Answers =>
         LET s == Answered.session_id
             job == Answered.job_id
         IN /\ sessionJson' = sessionJson
            /\ IF ing[s].pc = "none"
               THEN Answered.status = 404 /\ jobs' = jobs
               ELSE IF ing[s].segments = << >>
               THEN Answered.status = 400 /\ jobs' = jobs
               ELSE ~SubmitFailed
                      => /\ Answered.status = 200
                         /\ job \notin DOMAIN jobs
                         /\ DOMAIN jobs' = DOMAIN jobs \cup {job}
                         /\ input'[job].segments = ing[s].segments
                         /\ input'[job].context_profile = Answered.context]_vars

\* C21, the refusals alone: a call that finds no session.json answers 404, one that
\* reads a session.json without segments answers 400, and neither creates a job.
C21_Refusals ==
    [][Answers =>
         LET s == Answered.session_id
         IN /\ sessionJson[s].state = "absent"
                 => Answered.status = 404 /\ jobs' = jobs
            /\ (/\ sessionJson[s].state = "complete"
                /\ Get(sessionJson[s].meta, "segments", << >>) = << >>)
                 => Answered.status = 400 /\ jobs' = jobs]_vars

\* C21, the job alone: a 200 answer names exactly one new job, whose segments are
\* those save_session stored (not the ones of processed.json), and no call writes
\* session.json or a result file.
C21_RawSegmentsOneJob ==
    [][Answers =>
         /\ sessionJson' = sessionJson
         /\ resultData' = resultData
         /\ Answered.status = 200
               => /\ DOMAIN jobs' = DOMAIN jobs \cup {Answered.job_id}
                  /\ Answered.job_id \notin DOMAIN jobs
                  /\ input'[Answered.job_id].segments
                         = ing[Answered.session_id].segments]_vars

\* a call was answered 200 while processed.json held segments that differ from the
\* raw ones
C21_Witness ==
    \E i \in 1..Len(interpretLog) :
        LET e == interpretLog[i]
        IN /\ e.status = 200
           /\ resultFile[e.session_id][ResultName(NoneV)] = "complete"
           /\ resultData[e.session_id][ResultName(NoneV)][1].segments
                  # input[e.job_id].segments

\* the stage at pc[j] returns in this step
StageReturns(j, stage) == pc[j] = stage /\ pc'[j] # stage /\ pc'[j] # "failed"

\* C22: with retry_enabled = false, whatever the other flags, the context profile
\* and the casing, every segment of the job's result has the text of the input
\* segment at its position; and text_processing under casing "verbatim" returns the
\* segments as they were.
C22_TextUntouched ==
    /\ [](\A j \in DOMAIN jobs :
            (~config.retry_enabled /\ jobs[j].status = "completed")
                => /\ Len(Result(j).segments) = Len(input[j].segments)
                   /\ \A i \in 1..Len(input[j].segments) :
                         Result(j).segments[i].text = input[j].segments[i].text)
    /\ [][\A j \in JobIds :
            (StageReturns(j, "text_processing") /\ Casing(config, input[j]) = "verbatim")
                => segments'[j] = segments[j]]_vars

\* without the retry stage a job completed whose diarization, language detection,
\* text processing and PII flagging all ran and wrote a processed_text that differs
\* from the text
C22_Witness ==
    \E j \in DOMAIN jobs :
        /\ ~config.retry_enabled
        /\ jobs[j].status = "completed"
        /\ {"speaker_id", "detected_language", "processed_text", "subtitle_lines",
            "has_pii"} \subseteq DOMAIN segments[j][1]
        /\ segments[j][1].processed_text # segments[j][1].text
        /\ segments[j][1].has_pii = "True"
        /\ segments[j][1].language_switch = "True"

\* text_processing ran under casing "verbatim" and the job completed
C22_VerbatimWitness ==
    \E j \in DOMAIN jobs :
        /\ jobs[j].status = "completed"
        /\ Ran(j, "text_processing")
        /\ Casing(config, input[j]) = "verbatim"
        /\ "processed_text" \notin DOMAIN segments[j][1]

\* the keys a stage assigns on a segment
StageWrites(stage) ==
    IF stage = "confidence" THEN {"low_confidence"} \cup DOMAIN WordFields(<< >>)
    ELSE IF stage = "retry" THEN DOMAIN Best("good") \cup {"retried", "retry_model"}
    ELSE IF stage = "diarization" THEN {"speaker_id"}
    ELSE IF stage = "language_detect"
    THEN {"detected_language", "language_confidence", "language_switch"}
    ELSE IF stage = "text_processing" THEN {"processed_text", "subtitle_lines"}
    ELSE IF stage = "pii_flagging" THEN {"pii_flags", "has_pii"}
    ELSE {}

\* C23: whatever a stage does to the segment list (the retry stage's replacement of
\* a segment included), the list keeps its length, every segment keeps every key it
\* had, and the keys the stage does not assign keep their values, so each segment
\* stays at its position.
C23_FieldsKept ==
    [][\A j \in JobIds :
          pc[j] \in StagePcs
              => /\ Len(segments'[j]) = Len(segments[j])
                 /\ \A i \in 1..Len(segments[j]) :
                       /\ DOMAIN segments[j][i] \subseteq DOMAIN segments'[j][i]
                       /\ \A k \in DOMAIN segments[j][i] \ StageWrites(pc[j]) :
                             segments'[j][i][k] = segments[j][i][k]]_vars

\* a job completed after every stage ran: its second segment was replaced by the
\* retry stage and still has the keys of the input and of the confidence stage, and
\* each later stage added its own
C23_Witness ==
    \E j \in DOMAIN jobs :
        /\ jobs[j].status = "completed"
        /\ Len(segments[j]) = 2
        /\ Get(segments[j][2], "retried", "False") = "True"
        /\ segments[j][2].text # input[j].segments[2].text
        /\ DOMAIN input[j].segments[2] \subseteq DOMAIN segments[j][2]
        /\ {"speaker_id", "detected_language", "processed_text", "pii_flags"}
               \subseteq DOMAIN segments[j][2]
        /\ segments[j][1].avg_logprob = input[j].segments[1].avg_logprob

\* C24: GET /jobs/{id}/result answers 404 for an unknown id, 409 for a job that is
\* not "completed" and the result otherwise; and a job's result_data is non-null
\* exactly when its status is "completed".
C24_ResultIffCompleted ==
    /\ \A j \in JobIds :
          LET r == get_job_result(jobs, j)
          IN /\ r.code = 404 <=> j \notin DOMAIN jobs
             /\ r.code = 200 <=> (j \in DOMAIN jobs /\ jobs[j].status = "completed")
             /\ r.code = 200 => r.result # NoneV
    /\ \A j \in DOMAIN jobs :
          jobs[j].result_data # NoneV <=> jobs[j].status = "completed"

\* a 200 response for one job, a 409 for a failed one and a 404 for a third id
C24_Witness ==
    \E a \in JobIds, b \in JobIds, c \in JobIds :
        /\ get_job_result(jobs, a).code = 200
        /\ get_job_result(jobs, b).code = 409
        /\ get_job_result(jobs, b).status = "failed"
        /\ get_job_result(jobs, c).code = 404

\* C25: a session directory that holds session.json holds audio.wav; and a save whose
\* audio conversion fails writes no session.json, submits no job, and leaves a
\* directory that list_sessions does not return.
C25_SessionJsonAfterWav ==
    /\ [](\A s \in Sessions :
            /\ sessionJson[s].state # "absent" => audioWav[s] # "absent"
            /\ (sessionJson[s].state # "absent" \/ audioWav[s] # "absent")
                  => s \in sessDir)
    /\ [][\A s \in Sessions, left \in {"partial", "kept"} :
            SaveSessionFails(s, left)
                => /\ sessionJson' = sessionJson
                   /\ jobs' = jobs
                   /\ s \notin list_sessions(sessDir', sessionJson')]_vars

\* C25 without the listing: session.json implies audio.wav, and a failed save writes
\* no session.json and submits no job.
C25_NoJsonNoJob ==
    /\ [](\A s \in Sessions : sessionJson[s].state # "absent" => audioWav[s] # "absent")
    /\ [][\A s \in Sessions, left \in {"partial", "kept"} :
            SaveSessionFails(s, left) => sessionJson' = sessionJson /\ jobs' = jobs]_vars

\* C25, the listing after a failed save into a directory no earlier save used: it is
\* not returned.
C25_FreshDirectoryUnlisted ==
    [][\A s \in Sessions, left \in {"partial", "kept"} :
          (SaveSessionFails(s, left) /\ s \notin sessDir)
              => s \notin list_sessions(sessDir', sessionJson')]_vars

\* a directory without session.json, left by a failed save, next to nothing listed
C25_Witness ==
    \E s \in sessDir :
        /\ sessionJson[s].state = "absent"
        /\ audioWav[s] = "partial"
        /\ list_sessions(sessDir, sessionJson) = {}

\* the arrival numbers of a list of buffered chunks, transcripts or messages
Numbers(list) == [i \in 1..Len(list) |-> list[i].n]

\* the arrival numbers of the messages of at least MIN_CHUNK_BYTES bytes, in order
RECURSIVE AcceptedFrom(_, _)
AcceptedFrom(arrived, i) ==
    IF i > Len(arrived) THEN << >>
    ELSE IF arrived[i] >= MIN_CHUNK_BYTES THEN << i >> \o AcceptedFrom(arrived, i + 1)
    ELSE AcceptedFrom(arrived, i + 1)

\* C26: the chunks buffered for the session WAV are exactly the arrived messages of at
\* least 500 bytes, in arrival order, and transcribe_audio was called exactly once for
\* each of them and for no other.
C26_ChunkThreshold ==
    /\ Numbers(live.audio_chunks) = AcceptedFrom(live.arrived, 1)
    /\ live.calls = AcceptedFrom(live.arrived, 1)
    /\ \A i \in 1..Len(live.audio_chunks) :
          live.audio_chunks[i].size = live.arrived[live.audio_chunks[i].n]

\* a message of 499 bytes was dropped between two accepted ones, of 500 and 501 bytes
C26_Witness ==
    /\ live.arrived = << 500, 499, 501 >>
    /\ Len(live.audio_chunks) = 2
    /\ live.calls = << 1, 3 >>
    /\ live.phase = "closed"

\* the transcript messages among the send_text calls
RECURSIVE TranscriptMessages(_)
TranscriptMessages(sent) ==
    IF sent = << >> THEN << >>
    ELSE IF Head(sent).kind = "transcript"
    THEN << Head(sent) >> \o TranscriptMessages(Tail(sent))
    ELSE TranscriptMessages(Tail(sent))

\* the trimmed text of a response is non-empty and does not match the noise pattern
HasSpeech(outcome) ==
    /\ outcome # "error"
    /\ Strip(ResponseText(outcome)) # ""
    /\ ~NoiseMatch(Strip(ResponseText(outcome)))

\* this step appends a response to transcripts
Appends == Len(live'.transcripts) = Len(live.transcripts) + 1

\* this step calls send_text with a transcript message
SendsTranscript ==
    /\ Len(live'.sent) = Len(live.sent) + 1
    /\ live'.sent[Len(live'.sent)].kind = "transcript"

\* the message of this step's send_text call reaches the caller
Delivers == live'.sent[Len(live'.sent)].delivered

\* C27: a transcription response is appended to transcripts iff its trimmed text is
\* non-empty and no noise, and iff a transcript message for it is sent to the caller;
\* the chunk numbers of the transcript messages are 0, 1, 2, ... without gaps, and
\* there are never more transcripts than buffered chunks.
C27_TranscriptIffSent ==
    /\ [][\A outcome \in TranscribeOutcomes, raises \in BOOLEAN :
            LiveTranscribed(outcome, raises)
                => /\ Appends <=> HasSpeech(outcome)
                   /\ Appends <=> (SendsTranscript /\ Delivers)]_vars
    /\ [](/\ \A i \in 1..Len(TranscriptMessages(live.sent)) :
                TranscriptMessages(live.sent)[i].chunk = i - 1
          /\ Len(live.transcripts) <= Len(live.audio_chunks))

\* C27 with the send_text call in place of the delivery: a response is appended iff
\* its trimmed text is non-empty and no noise, and iff send_text is called with a
\* transcript message for it, whose chunk number is the number of transcript messages
\* before it; and the transcripts never outnumber the buffered chunks.
C27_AppendedIffSendCalled ==
    /\ [][\A outcome \in TranscribeOutcomes, raises \in BOOLEAN :
            LiveTranscribed(outcome, raises)
                => /\ Appends <=> HasSpeech(outcome)
                   /\ Appends <=> SendsTranscript]_vars
    /\ [](/\ \A i \in 1..Len(TranscriptMessages(live.sent)) :
                TranscriptMessages(live.sent)[i].chunk = i - 1
          /\ Numbers(TranscriptMessages(live.sent)) = Numbers(live.transcripts)
          /\ Len(live.transcripts) <= Len(live.audio_chunks))

\* a session saved with a transcript whose message the caller did not get
C27_Witness ==
    /\ live.phase = "closed"
    /\ Len(live.transcripts) = 2
    /\ \E i \in 1..Len(live.sent) :
          live.sent[i].kind = "transcript" /\ ~live.sent[i].delivered
    /\ \E s \in Sessions : sessionJson[s].state = "complete"

\* the transcript frames among the frames sent on the Gateway's WebSocket
RECURSIVE TranscriptFrames(_)
TranscriptFrames(sent) ==
    IF sent = << >> THEN << >>
    ELSE IF Head(sent).type = "transcript"
    THEN << Head(sent) >> \o TranscriptFrames(Tail(sent))
    ELSE TranscriptFrames(Tail(sent))

\* C28: audio frames are accumulated only while streaming, and the buffer holds the
\* audio frames received since the last start, process or stop, in order (as long as
\* the handler runs: a frame that cannot be decoded ends it); when the
\* session is not streaming the buffer is empty; a process action with a non-empty
\* buffer transcribes the buffer, sends one transcript frame and empties the buffer
\* (unless the transcription raises, which ends the connection), with an empty buffer
\* it sends nothing; no audio frame is in two transcripts.
C28_BufferDiscipline ==
    /\ [](/\ ~ws.is_streaming => ws.audio_buffer = << >>
          /\ ws.phase = "open"
                => \A i \in 1..Len(ws.audio_buffer) :
                      ws.audio_buffer[i] = ws.audio - Len(ws.audio_buffer) + i
          /\ \A i, j \in 1..Len(TranscriptFrames(ws.sent)) :
                i # j => Range(TranscriptFrames(ws.sent)[i].audio)
                            \cap Range(TranscriptFrames(ws.sent)[j].audio) = {})
    /\ [][/\ Len(ws'.audio_buffer) > Len(ws.audio_buffer)
               => /\ ws.is_streaming
                  /\ ws'.audio_buffer = Append(ws.audio_buffer, ws'.audio)
          /\ \A loaded \in BOOLEAN, ran \in BOOLEAN :
                WsProcess(loaded, ran)
                    => IF ws.audio_buffer = << >> THEN ws'.sent = ws.sent
                       ELSE \/ ws'.phase = "closed" /\ ws'.sent = ws.sent
                            \/ /\ Len(ws'.sent) = Len(ws.sent) + 1
                               /\ ws'.sent[Len(ws'.sent)].type = "transcript"
                               /\ ws'.sent[Len(ws'.sent)].audio = ws.audio_buffer
                               /\ ws'.audio_buffer = << >>]_vars

\* two transcripts of one connection, the second after a stop and a new start, and an
\* audio frame that arrived while the session was not streaming is in neither
C28_Witness ==
    /\ Len(TranscriptFrames(ws.sent)) = 2
    /\ TranscriptFrames(ws.sent)[1].audio = << 1 >>
    /\ TranscriptFrames(ws.sent)[2].audio = << 3 >>
    /\ ws.audio = 3

\* C29: a transcribe request that is answered ran on mlx iff the backend tag of its
\* profile is "mlx" and mlx is enabled and importable, and on faster-whisper
\* otherwise; the backend field of the response names the backend that ran; an unknown
\* profile name is handled and reported as the default profile "accurate".
C29_BackendReported ==
    [][\A profile \in Profiles, loaded \in BOOLEAN, ran \in BOOLEAN :
          (TranscribeFile(profile, loaded, ran) /\ reply'.status = 200)
             => LET p == IF profile \in DOMAIN PROFILE_CONFIG THEN profile
                         ELSE "accurate"
                    key == << reply'.result.backend, PROFILE_CONFIG[p].model >>
                IN /\ reply'.result.profile = p
                   /\ reply'.result.backend \in {"mlx", "faster_whisper"}
                   /\ reply'.result.backend = "mlx"
                         <=> /\ PROFILE_CONFIG[p].backend = "mlx"
                             /\ gateway.enable_mlx
                             /\ gateway.mlx_installed
                   /\ key \in gateway'.used
                   /\ gateway'.used \ gateway.used \subseteq {key}]_vars

\* a request under a profile tagged "mlx" was answered by faster-whisper, mlx being
\* enabled but not importable
C29_Witness ==
    /\ reply.status = 200
    /\ reply.asked \in DOMAIN PROFILE_CONFIG
    /\ PROFILE_CONFIG[reply.asked].backend = "mlx"
    /\ reply.result.backend = "faster_whisper"
    /\ gateway.enable_mlx
    /\ << "faster_whisper", PROFILE_CONFIG[reply.asked].model >> \in gateway.used

\* a request under an unknown profile name was answered as "accurate"
C29_UnknownWitness ==
    /\ reply.status = 200
    /\ reply.asked \notin DOMAIN PROFILE_CONFIG
    /\ reply.result.profile = "accurate"

\* the session.json keys the ingest orchestrator writes: those of save_session and
\* those update_session_metadata merges from ingest and finalize_realtime
IngestKeys ==
    DOMAIN BaseMeta(NoSession, << >>)
        \cup UNION {DOMAIN IngestUpdates(kind, 1) : kind \in {"ingest", "realtime"}}

\* C30: no key of session.json is written by both components: what the Pipeline
\* Runner sets in _update_session_status is no key the Ingest Orchestrator writes, and
\* what update_session_metadata merges is no key the Runner sets.
C30_DisjointKeys ==
    [][/\ \A j \in JobIds :
            UpdateSessionDump(j)
               => DOMAIN RunnerUpdates(StatusArg(j), j, exc[j]) \cap IngestKeys = {}
       /\ \A s \in Sessions :
            IngestMetaDump(s)
               => \A j \in JobIds, status \in {"completed", "failed"} :
                     DOMAIN IngestUpdates(ing[s].kind, ing[s].job)
                        \cap DOMAIN RunnerUpdates(status, j, NoneV) = {}]_vars

\* C30, the part that holds: the Runner leaves every key save_session wrote, and
\* "source", as it read them.
C30_BaseKeysKept ==
    [][\A j \in JobIds :
          UpdateSessionDump(j)
             => \A k \in DOMAIN runMeta[j] \cap
                         (DOMAIN BaseMeta(NoSession, << >>) \cup {"source"}) :
                   sessionJson'[input[j].session_id].meta[k] = runMeta[j][k]]_vars

\* the Runner replaced the processing_status the ingest orchestrator had written
C30_Witness ==
    \E s \in Sessions :
        /\ sessionJson[s].state = "complete"
        /\ Get(sessionJson[s].meta, "source", NoneV) = "api"
        /\ Get(sessionJson[s].meta, "processing_status", NoneV) = "completed"

\* the words of the lines, read in order
RECURSIVE Flat(_)
Flat(lines) == IF lines = << >> THEN << >> ELSE Head(lines) \o Flat(Tail(lines))

\* C31: _split_subtitle_lines returns at most 2 lines whose words, read in order, are
\* the words of the text in order (none lost, none duplicated, repeated words
\* included), and a line other than the last is longer than 42 characters only if it
\* is a single word longer than 42 characters.
C31_SubtitleLines ==
    subtitle.lines # NoneV =>
        /\ Len(subtitle.lines) <= 2
        /\ Flat(subtitle.lines) = subtitle.words
        /\ \A i \in 1..(Len(subtitle.lines) - 1) :
              LineLen(subtitle.lines[i]) > 42
                  => Len(subtitle.lines[i]) = 1 /\ WordLen(subtitle.lines[i][1]) > 42

\* C31, the part that holds: at most 2 lines, the line limit as stated, no word lost
\* (the words of the text are those of the lines read in order with one run of words
\* left out), and the words exactly those of the text when no word occurs twice.
C31_NoWordLost ==
    subtitle.lines # NoneV =>
        /\ Len(subtitle.lines) <= 2
        /\ \A i \in 1..(Len(subtitle.lines) - 1) :
              LineLen(subtitle.lines[i]) > 42
                  => Len(subtitle.lines[i]) = 1 /\ WordLen(subtitle.lines[i][1]) > 42
        /\ LET flat == Flat(subtitle.lines)
           IN \E i \in 0..Len(flat) : \E k \in i..Len(flat) :
                 subtitle.words = SubSeq(flat, 1, i) \o SubSeq(flat, k + 1, Len(flat))
        /\ (\A i, k \in 1..Len(subtitle.words) :
                i # k => subtitle.words[i] # subtitle.words[k])
              => Flat(subtitle.lines) = subtitle.words

\* a text of three equal words came back with five
C31_Witness ==
    /\ subtitle.words = << LongWord, LongWord, LongWord >>
    /\ subtitle.lines = << << LongWord >>, << LongWord, LongWord, LongWord, LongWord >> >>

\* text[start:end] for the texts of the model and the spans of their matches
Slice(text, start, end) ==
    IF text \in {ProfaneText, ProfaneProcessed} /\ << start, end >> = << 19, 35 >>
    THEN "anna@example.com"
    ELSE IF text = ProfaneText /\ << start, end >> = << 0, 3 >> THEN "fan"
    ELSE IF text = ProfaneProcessed /\ << start, end >> = << 0, 3 >> THEN "Fan"
    ELSE IF text \in {LongText, "Mejla anna@example.com tack"}
            /\ << start, end >> = << 6, 22 >>
    THEN "anna@example.com"
    ELSE NoneV

\* the PII stage has flagged segment seg
Flagged(seg) == {"pii_flags", "has_pii"} \subseteq DOMAIN seg

\* has_pii is true iff pii_flags is non-empty, and every flag is a span of `scanned`
FlagsOf(seg, scanned) ==
    /\ seg.has_pii = "True" <=> seg.pii_flags # << >>
    /\ \A n \in 1..Len(seg.pii_flags) :
          seg.pii_flags[n].text
              = Slice(scanned, seg.pii_flags[n].start_char, seg.pii_flags[n].end_char)

\* C32: the pii_flagging stage scans processed_text when a segment has it and text
\* otherwise: every flag's start_char and end_char are offsets into that string and
\* flag.text is that substring; has_pii is true iff pii_flags is non-empty; the stage
\* changes neither text nor processed_text.
C32_ScansProcessedText ==
    /\ [](\A j \in JobIds : \A i \in 1..Len(segments[j]) :
            Flagged(segments[j][i])
               => FlagsOf(segments[j][i],
                          IF "processed_text" \in DOMAIN segments[j][i]
                          THEN segments[j][i].processed_text
                          ELSE segments[j][i].text))
    /\ [][\A j \in JobIds :
            pc[j] = "pii_flagging"
               => \A i \in 1..Len(segments[j]) : \A k \in {"text", "processed_text"} :
                     Get(segments'[j][i], k, NoneV) = Get(segments[j][i], k, NoneV)]_vars

\* C32, as the stage works: it scans text unless text is empty or absent, and
\* processed_text then; the flags are spans of that string, has_pii is true iff there
\* is a flag, and text and processed_text are left as they were.
C32_ScansText ==
    /\ [](\A j \in JobIds : \A i \in 1..Len(segments[j]) :
            Flagged(segments[j][i])
               => FlagsOf(segments[j][i],
                          IF Get(segments[j][i], "text", "") # ""
                          THEN segments[j][i].text
                          ELSE Get(segments[j][i], "processed_text", "")))
    /\ [][\A j \in JobIds :
            pc[j] = "pii_flagging"
               => \A i \in 1..Len(segments[j]) : \A k \in {"text", "processed_text"} :
                     Get(segments'[j][i], k, NoneV) = Get(segments[j][i], k, NoneV)]_vars

\* a flagged segment whose processed_text starts with "Fan" carries the flag "fan"
C32_Witness ==
    \E j \in JobIds :
        /\ Len(segments[j]) = 1
        /\ Flagged(segments[j][1])
        /\ Get(segments[j][1], "processed_text", NoneV) = ProfaneProcessed
        /\ segments[j][1].text = ProfaneText
        /\ \E n \in 1..Len(segments[j][1].pii_flags) :
              segments[j][1].pii_flags[n].text = "fan"

\* enqueue has put job j on the queue
Accepted(j) == pc[j] = "queued"

\* the job's row says completed or failed
Terminal(j) == j \in DOMAIN jobs /\ jobs[j].status \in {"completed", "failed"}

\* the task of job j holds a permit of the semaphore
HoldsPermit(j) ==
    pc[j] \in {"acquired", "starting", "completed", "failed"} \cup StagePcs

\* C33: without a shutdown, and with external calls that return or raise, every job
\* enqueue accepted eventually has status "completed" or "failed", its permit is
\* released in both cases, and every accepted job is eventually started.
C33_EveryJobEnds ==
    \A j \in JobIds :
        /\ Accepted(j) ~> Terminal(j)
        /\ HoldsPermit(j) ~> ~HoldsPermit(j)
        /\ Accepted(j) ~> HoldsPermit(j)

\* C33, the part that holds: every accepted job is eventually started, every permit
\* taken is eventually released, the permits out are those of the tasks that hold
\* one, and a job that does not end as "completed" or "failed" is one whose task an
\* exception of the job store ended.
C33_PermitsReturn ==
    /\ [](permits + Cardinality({j \in JobIds : HoldsPermit(j)})
            = config.max_concurrent_jobs)
    /\ \A j \in JobIds :
          /\ Accepted(j) ~> (Terminal(j) \/ pc[j] = "dropped")
          /\ HoldsPermit(j) ~> ~HoldsPermit(j)
          /\ Accepted(j) ~> HoldsPermit(j)

\* the task of a job ended on an exception of the job store while the row still says
\* "queued", and the permit is back
C33_Witness ==
    \E j \in JobIds :
        /\ pc[j] = "dropped"
        /\ jobs[j].status = "queued"
        /\ permits = config.max_concurrent_jobs

\* C34: with more than one permit, under every interleaving of the jobs that set and
\* clear config._audio_base64, the retry stage of a job sends to the Gateway only the
\* audio_base64 of the job's own input, and it skips the retry (sends nothing) exactly
\* when its own input has none.
C34_OwnAudioSent ==
    /\ [](\A j \in DOMAIN jobs :
            /\ rt[j].sent \subseteq {input[j].audio_base64}
            /\ rt[j].pc # "idle" => Truthy(input[j].audio_base64)
            /\ ~Truthy(input[j].audio_base64) => rt[j].sent = {})
    /\ [][\A j \in JobIds :
            (pc[j] = "retry" /\ pc'[j] # "retry" /\ rt[j].pc = "idle")
                => ~Truthy(input[j].audio_base64)]_vars

\* while a job with one recording is between two POSTs of its retry stage, another
\* job with another recording has set the shared attribute to its own and has sent it
C34_Witness ==
    \E j, k \in DOMAIN jobs :
        /\ j # k
        /\ rt[j].pc = "call" /\ rt[j].sent = {"b64"}
        /\ rt[k].sent = {"other64"}
        /\ audioAttr = "other64"

\* a job's retry stage runs on after another job's stage ended and cleared the
\* attribute
C34_ClearedWitness ==
    \E j, k \in DOMAIN jobs :
        /\ j # k
        /\ rt[j].pc = "call" /\ rt[j].sent = {"b64"}
        /\ rt[k].pc = "done" /\ pc[k] # "retry"
        /\ audioAttr = NoneV

\* ------------------------------------------- word confidence after a retry

\* the three word fields of segment `seg` are the ones of its own words list
WordFieldsCurrent(seg) ==
    LET wf == WordFields(Get(seg, "words", << >>))
    IN \A k \in DOMAIN wf : k \in DOMAIN seg /\ seg[k] = wf[k]

\* C35: when a job completes, every segment's word_confidence_avg,
\* word_confidence_min and low_confidence_words are the values computed from the
\* words list the segment ends with, the segments the retry stage replaced included.
C35_WordFieldsCurrent ==
    \A j \in DOMAIN jobs :
        jobs[j].status = "completed"
            => \A i \in 1..Len(segments[j]) : WordFieldsCurrent(segments[j][i])

\* C35 as the stages work: the word fields of every segment of a completed job are
\* the ones of the words list the job was submitted with, and they are current on
\* every segment the retry stage did not replace.
C35_WordFieldsOfInput ==
    \A j \in DOMAIN jobs :
        jobs[j].status = "completed"
            => \A i \in 1..Len(segments[j]) :
                  LET wf == WordFields(Get(input[j].segments[i], "words", << >>))
                  IN /\ \A k \in DOMAIN wf : segments[j][i][k] = wf[k]
                     /\ "retried" \notin DOMAIN segments[j][i]
                           => WordFieldsCurrent(segments[j][i])

\* a completed job holds a segment the retry stage replaced, with the words of the
\* re-transcription
C35_Witness ==
    \E j \in DOMAIN jobs :
        /\ jobs[j].status = "completed"
        /\ \E i \in 1..Len(segments[j]) :
              /\ Get(segments[j][i], "retried", NoneV) = "True"
              /\ Len(segments[j][i].words) = RetriedWords
              /\ Len(input[j].segments[i].words) # RetriedWords

\* ------------------------------------------------ session directory names

\* the numbers of the save_session calls that returned a directory
Successful == {n \in 1..Len(sessionsDir.returned) : sessionsDir.returned[n] # Null}

\* C36: any two successful save_session calls return distinct session directories,
\* also under one profile within one UTC second, and the audio.wav and session.json
\* of every successful call stay as that call wrote them.
C36_DistinctDirectories ==
    /\ \A m, n \in Successful :
          m # n => sessionsDir.returned[m] # sessionsDir.returned[n]
    /\ \A n \in Successful :
          /\ sessionsDir.dirs[sessionsDir.returned[n]].audio_wav = n
          /\ sessionsDir.dirs[sessionsDir.returned[n]].session_json = n

\* C36 as save_session names its directories: a successful call returns the name made
\* of its second and its profile, which is the directory of every earlier call of
\* that second and profile and of no other; and session.json of a directory is the
\* one of the last successful call that returned the directory.
C36_SameSecondSameDirectory ==
    /\ [](\A d \in DOMAIN sessionsDir.dirs :
            LET calls == {n \in Successful : sessionsDir.returned[n] = d}
            IN \A n \in 0..MaxSaves :
                  sessionsDir.dirs[d].session_json = n
                      <=> /\ n \in calls \cup {0}
                          /\ \A m \in calls : m <= n)
    /\ [][\A profile \in DOMAIN PROFILE_CONFIG :
            SaveSessionAt(profile, 1, "complete")
                => LET d == sessionsDir'.returned[Len(sessionsDir'.returned)]
                   IN /\ d = session_id(sessionsDir.now, profile)
                      /\ d[1] = sessionsDir.now /\ d[2] = profile
                      /\ \A x \in DOMAIN sessionsDir.dirs :
                            x = d <=> (x[1] = sessionsDir.now /\ x[2] = profile)]_vars

\* two successful calls under one profile within one second, and a third a second
\* later
C36_Witness ==
    /\ Len(sessionsDir.returned) = 3
    /\ Successful = {1, 2, 3}
    /\ sessionsDir.returned[1] = sessionsDir.returned[2]
    /\ sessionsDir.returned[3][1] = sessionsDir.returned[2][1] + 1
    /\ sessionsDir.returned[3][2] = sessionsDir.returned[2][2]
    /\ sessionsDir.dirs[sessionsDir.returned[1]].session_json = 2

\* ------------------------------------------- context name in the result file

\* the dict in the complete file `name` of session s
FileDict(s, name) == resultData[s][name][1]

\* C37: every interpreted_{c}.json the runner writes holds context_profile = c, for
\* every context name c a job can carry, the names that are not one of the five
\* recognised contexts included.
C37_ContextInFile ==
    \A s \in Sessions, c \in AllContexts \ {NoneV} :
        resultFile[s][ResultName(c)] = "complete"
            => FileDict(s, ResultName(c)).context_profile = c

\* C37 as the runner works: interpreted_{c}.json holds context_profile = c when c is
\* one of the recognised contexts, and no context_profile otherwise.
C37_RecognisedContextInFile ==
    \A s \in Sessions, c \in AllContexts \ {NoneV} :
        resultFile[s][ResultName(c)] = "complete"
            => FileDict(s, ResultName(c)).context_profile
                   = IF c \in DOMAIN CONTEXT_PROFILES THEN c ELSE NoneV

\* interpreted_meeting.json and interpreted_bogus.json of one session are written
C37_Witness ==
    \E s \in Sessions :
        /\ resultFile[s][ResultName("meeting")] = "complete"
        /\ resultFile[s][ResultName("bogus")] = "complete"
        /\ \E j \in DOMAIN jobs :
              /\ input[j].context_profile = "bogus"
              /\ jobs[j].status = "completed"
              /\ pc[j] = "finished"

\* ---------------------------------------------------- jobs across a restart

\* the row of job j says the job is under way
Unfinished(j) ==
    j \in DOMAIN jobs /\ jobs[j].status \in {"queued", "running", "processing"}

\* the handler or task of job j went with a process that stopped
Lost(j) == pc[j] = "lost"

\* C38: a job whose persisted status is "queued", "running" or "processing" when the
\* worker process stops is taken up again after the worker has started, and
\* eventually reaches "completed" or "failed".
C38_TakenUpAgain ==
    \A j \in JobIds : (Lost(j) /\ Unfinished(j)) ~> Terminal(j)

\* C38 as the worker starts: the row of a job whose handler or task went with the
\* stopped process never changes again and no task is made for it, while every job
\* the running process accepts into its queue reaches "completed" or "failed" unless
\* the process stops first.
C38_LostJobsStay ==
    /\ [][\A j \in JobIds :
            Lost(j) => /\ Lost(j)'
                       /\ j \in DOMAIN jobs => jobs'[j] = jobs[j]]_vars
    /\ [](\A j \in JobIds : Lost(j) => \A i \in 1..Len(queue) : queue[i] # j)
    /\ \A j \in JobIds : Accepted(j) ~> (Terminal(j) \/ Lost(j))

\* after a start of the process, one job's row says "queued" and another's
\* "processing", with no task for either, while the queue is empty and every permit
\* is free
C38_Witness ==
    /\ boots = MaxBoots
    /\ queue = << >>
    /\ permits = config.max_concurrent_jobs
    /\ \E j, k \in DOMAIN jobs :
          /\ Lost(j) /\ jobs[j].status = "queued"
          /\ Lost(k) /\ jobs[k].status = "processing"

====
